---- MODULE Spec2Model ----
(***************************************************************************)
(* A model of datatube's validated records (src/datatube/info.py:          *)
(* PropertyDict, ChannelInfo, ChannelInfo.HtmlDict, VideoInfo) and of its   *)
(* statistics store (src/datatube/stats.py: Stats).                         *)
(*                                                                         *)
(* Python values are records tagged with their type, so that the           *)
(* isinstance() guards of the setters are decided by the model.  A          *)
(* datetime is an instant t plus the fact whether it carries a tzinfo.      *)
(***************************************************************************)
EXTENDS Integers, Sequences, FiniteSets, TLC

VARIABLES now, video, chans, htmls, stats, frame, files, last, calls

vars == <<now, video, chans, htmls, stats, frame, files, last, calls>>

\* ------------------------------------------------------------------ bounds

\* The clock runs over 0..MaxTime; dates are drawn from the same range.
MaxTime == 2
\* Constructor, setter and item calls that return, in one behaviour: on a
\* VideoInfo, and on ChannelInfo and HtmlDict objects.
MaxVideoCalls == 3
MaxChannelCalls == 2
\* ChannelInfo and HtmlDict objects that can be alive at once.
MaxChan == 2
MaxHtml == 3
\* Rows of a dataset handed to coerce_dtypes.
MaxColumnLen == 2
\* Calls that return in a behaviour that writes and loads JSON files.
MaxJsonCalls == 3
\* Calls that return in a behaviour that shares HtmlDict objects.
MaxAliasCalls == 3
\* Calls that return in a behaviour that reads and writes records by key.
MaxItemCalls == 2
\* Calls that return in a behaviour that sets the dates of records.
MaxDateCalls == 3
\* Calls that return in a behaviour that tries the guards of the setters.
MaxSetterCalls == 2

Times == 0..MaxTime

\* ----------------------------------------------------------- Python values

None == [type |-> "NoneType"]
Str(s) == [type |-> "str", s |-> s]
PyInt(n) == [type |-> "int", n |-> n]
Bool(b) == [type |-> "bool", b |-> b]
Datetime(t, tz) == [type |-> "datetime", t |-> t, tz |-> tz]
Timedelta(d) == [type |-> "timedelta", d |-> d]
List(es) == [type |-> "list", elems |-> es]
Tuple(es) == [type |-> "tuple", elems |-> es]
\* A set whose iteration order is the order of es.
PySet(es) == [type |-> "set", elems |-> es]
Dict(d) == [type |-> "dict", d |-> d]
\* A reference to the HtmlDict object htmls[ref].
HtmlRef(ref) == [type |-> "HtmlDict", ref |-> ref]

IsInstance(v, types) == v.type \in types

StartsWith(s, prefix) ==
    /\ Len(s) >= Len(prefix)
    /\ SubSeq(s, 1, Len(prefix)) = prefix

\* validators.url(new_url): truthy for a syntactically valid url.  Only the
\* scheme and a non-empty rest are modelled.
validators_url(s) ==
    \/ StartsWith(s, "http://") /\ Len(s) > Len("http://")
    \/ StartsWith(s, "https://") /\ Len(s) > Len("https://")

\* --------------------------------------------------------------- objects

NoObject == [class |-> "none"]
\* No Stats object has been constructed.
NoStats == [class |-> "none"]
\* No dataset has been handed to coerce_dtypes.
NoFrame == [class |-> "none"]
\* The paths of the file system, and a path that names no file.
PathNames == {"saved/channel.json", "channel.txt"}
NoFile == [class |-> "none"]
NoFiles == [p \in PathNames |-> NoFile]

\* hasattr(self, "_" + name)
HasAttr(self, name) == name \in DOMAIN self.slots

\* self._name = val
SetSlot(self, name, val) ==
    [self EXCEPT !.slots =
        [k \in DOMAIN self.slots \cup {name} |->
            IF k = name THEN val ELSE self.slots[k]]]

\* The outcome of a call on an object: the exception raised ("" when the
\* call returns) and the object afterwards.
Raise(e, self) == [exc |-> e, self |-> self]
Return(self) == [exc |-> "", self |-> self]

\* PropertyDict.__init__
PropertyDict_init(class, immutable) ==
    IF ~IsInstance(immutable, {"bool"})
    THEN Raise("TypeError", NoObject)
    ELSE Return([class |-> class, immutable |-> immutable.b,
                 slots |-> [k \in {} |-> None]])

\* ------------------------------------------------------ VideoInfo setters

VideoInfo_channel_id(self, new_id) ==
    IF self.immutable /\ HasAttr(self, "channel_id")
    THEN Raise("AttributeError", self)
    ELSE IF ~IsInstance(new_id, {"str"})
    THEN Raise("TypeError", self)
    ELSE IF Len(new_id.s) # 24 \/ ~StartsWith(new_id.s, "UC")
    THEN Raise("ValueError", self)
    ELSE Return(SetSlot(self, "channel_id", new_id))

VideoInfo_channel_name(self, new_name) ==
    IF self.immutable /\ HasAttr(self, "channel_name")
    THEN Raise("AttributeError", self)
    ELSE IF ~IsInstance(new_name, {"str"})
    THEN Raise("TypeError", self)
    ELSE IF new_name.s = ""
    THEN Raise("ValueError", self)
    ELSE Return(SetSlot(self, "channel_name", new_name))

VideoInfo_description(self, new_description) ==
    IF self.immutable /\ HasAttr(self, "description")
    THEN Raise("AttributeError", self)
    ELSE IF ~IsInstance(new_description, {"str"})
    THEN Raise("TypeError", self)
    ELSE Return(SetSlot(self, "description", new_description))

VideoInfo_duration(self, new_duration) ==
    IF self.immutable /\ HasAttr(self, "duration")
    THEN Raise("AttributeError", self)
    ELSE IF ~IsInstance(new_duration, {"timedelta"})
    THEN Raise("TypeError", self)
    ELSE IF new_duration.d < 0
    THEN Raise("ValueError", self)
    ELSE Return(SetSlot(self, "duration", new_duration))

\* The first keyword that is not a string raises TypeError, the first empty
\* one ValueError, whichever comes first in iteration order.
RECURSIVE KeywordError(_)
KeywordError(keywords) ==
    IF keywords = <<>> THEN ""
    ELSE IF ~IsInstance(Head(keywords), {"str"}) THEN "TypeError"
    ELSE IF Head(keywords).s = "" THEN "ValueError"
    ELSE KeywordError(Tail(keywords))

\* The keywords setter without the immutability guard.
VideoInfo_keywords_unguarded(self, new_keywords) ==
    IF ~IsInstance(new_keywords, {"list", "tuple", "set"})
    THEN Raise("TypeError", self)
    ELSE IF KeywordError(new_keywords.elems) # ""
    THEN Raise(KeywordError(new_keywords.elems), self)
    ELSE IF self.immutable
    THEN Return(SetSlot(self, "keywords", Tuple(new_keywords.elems)))
    ELSE Return(SetSlot(self, "keywords", List(new_keywords.elems)))

VideoInfo_keywords(self, new_keywords) ==
    IF self.immutable /\ HasAttr(self, "keywords")
    THEN Raise("AttributeError", self)
    ELSE IF ~IsInstance(new_keywords, {"list", "tuple", "set"})
    THEN Raise("TypeError", self)
    ELSE IF KeywordError(new_keywords.elems) # ""
    THEN Raise(KeywordError(new_keywords.elems), self)
    ELSE IF self.immutable
    THEN Return(SetSlot(self, "keywords", Tuple(new_keywords.elems)))
    ELSE Return(SetSlot(self, "keywords", List(new_keywords.elems)))

VideoInfo_last_updated(self, new_date, current_time) ==
    IF self.immutable /\ HasAttr(self, "last_updated")
    THEN Raise("AttributeError", self)
    ELSE IF ~IsInstance(new_date, {"datetime"})
    THEN Raise("TypeError", self)
    ELSE IF ~new_date.tz
    THEN Raise("ValueError", self)
    ELSE IF new_date.t > current_time
    THEN Raise("ValueError", self)
    ELSE IF HasAttr(self, "publish_date")
            /\ new_date.t < self.slots["publish_date"].t
    THEN Raise("ValueError", self)
    ELSE Return(SetSlot(self, "last_updated", new_date))

\* The publish_date setter without the comparison with last_updated.
VideoInfo_publish_date_unordered(self, new_date) ==
    IF self.immutable /\ HasAttr(self, "publish_date")
    THEN Raise("AttributeError", self)
    ELSE IF ~IsInstance(new_date, {"datetime"})
    THEN Raise("TypeError", self)
    ELSE IF ~new_date.tz
    THEN Raise("ValueError", self)
    ELSE Return(SetSlot(self, "publish_date", new_date))

VideoInfo_publish_date(self, new_date) ==
    IF self.immutable /\ HasAttr(self, "publish_date")
    THEN Raise("AttributeError", self)
    ELSE IF ~IsInstance(new_date, {"datetime"})
    THEN Raise("TypeError", self)
    ELSE IF ~new_date.tz
    THEN Raise("ValueError", self)
    ELSE IF HasAttr(self, "last_updated")
            /\ new_date.t > self.slots["last_updated"].t
    THEN Raise("ValueError", self)
    ELSE Return(SetSlot(self, "publish_date", new_date))

VideoInfo_thumbnail_url(self, new_url) ==
    IF self.immutable /\ HasAttr(self, "thumbnail_url")
    THEN Raise("AttributeError", self)
    ELSE IF ~IsInstance(new_url, {"str"})
    THEN Raise("TypeError", self)
    ELSE IF ~validators_url(new_url.s)
    THEN Raise("ValueError", self)
    ELSE Return(SetSlot(self, "thumbnail_url", new_url))

VideoInfo_video_id(self, new_id) ==
    IF self.immutable /\ HasAttr(self, "video_id")
    THEN Raise("AttributeError", self)
    ELSE IF ~IsInstance(new_id, {"str"})
    THEN Raise("TypeError", self)
    ELSE IF Len(new_id.s) # 11
    THEN Raise("ValueError", self)
    ELSE Return(SetSlot(self, "video_id", new_id))

VideoInfo_video_title(self, new_title) ==
    IF self.immutable /\ HasAttr(self, "video_title")
    THEN Raise("AttributeError", self)
    ELSE IF ~IsInstance(new_title, {"str"})
    THEN Raise("TypeError", self)
    ELSE IF new_title.s = ""
    THEN Raise("ValueError", self)
    ELSE Return(SetSlot(self, "video_title", new_title))

\* The properties of VideoInfo as dir(type(self)) lists them (sorted), which
\* is PropertyDict.keys() without "immutable".
VideoInfo_keys ==
    <<"channel_id", "channel_name", "description", "duration", "keywords",
      "last_updated", "publish_date", "thumbnail_url", "video_id",
      "video_title">>

Range(seq) == {seq[i] : i \in DOMAIN seq}

\* setattr(self, key, val) for a property of VideoInfo
VideoInfo_setattr(self, key, val, current_time) ==
    CASE key = "channel_id" -> VideoInfo_channel_id(self, val)
      [] key = "channel_name" -> VideoInfo_channel_name(self, val)
      [] key = "description" -> VideoInfo_description(self, val)
      [] key = "duration" -> VideoInfo_duration(self, val)
      [] key = "keywords" -> VideoInfo_keywords(self, val)
      [] key = "last_updated" -> VideoInfo_last_updated(self, val, current_time)
      [] key = "publish_date" -> VideoInfo_publish_date(self, val)
      [] key = "thumbnail_url" -> VideoInfo_thumbnail_url(self, val)
      [] key = "video_id" -> VideoInfo_video_id(self, val)
      [] key = "video_title" -> VideoInfo_video_title(self, val)

\* The assignments of VideoInfo.__init__, in the order of the code; the
\* first one that raises ends the construction.
VideoInfo_init_order ==
    <<"channel_id", "channel_name", "video_id", "video_title",
      "publish_date", "last_updated", "duration", "description", "keywords",
      "thumbnail_url">>

RECURSIVE VideoInfo_assign(_, _, _, _)
VideoInfo_assign(self, order, args, current_time) ==
    IF order = <<>> THEN Return(self)
    ELSE LET r == VideoInfo_setattr(self, Head(order), args[Head(order)],
                                    current_time)
         IN IF r.exc # "" THEN Raise(r.exc, NoObject)
            ELSE VideoInfo_assign(r.self, Tail(order), args, current_time)

VideoInfo_init(args, immutable, current_time) ==
    LET base == PropertyDict_init("VideoInfo", immutable)
    IN IF base.exc # "" THEN base
       ELSE VideoInfo_assign(base.self, VideoInfo_init_order, args,
                             current_time)

\* PropertyDict.__getitem__ on a VideoInfo; key is a Python value.
VideoInfo_getitem(self, key) ==
    IF ~IsInstance(key, {"str"})
    THEN [exc |-> "TypeError", val |-> None]
    ELSE IF key.s \notin Range(VideoInfo_keys)
    THEN [exc |-> "KeyError", val |-> None]
    ELSE [exc |-> "", val |-> self.slots[key.s]]

\* PropertyDict.__setitem__ on a VideoInfo without the check of the key
\* against keys(): setattr raises AttributeError for a name that has no
\* setter.
VideoInfo_setitem_unchecked(self, key, val, current_time) ==
    IF ~IsInstance(key, {"str"})
    THEN Raise("TypeError", self)
    ELSE IF key.s \notin Range(VideoInfo_keys)
    THEN Raise("AttributeError", self)
    ELSE VideoInfo_setattr(self, key.s, val, current_time)

\* PropertyDict.__setitem__ on a VideoInfo
VideoInfo_setitem(self, key, val, current_time) ==
    IF ~IsInstance(key, {"str"})
    THEN Raise("TypeError", self)
    ELSE IF key.s \notin Range(VideoInfo_keys)
    THEN Raise("KeyError", self)
    ELSE VideoInfo_setattr(self, key.s, val, current_time)

\* ------------------------------------------------- ChannelInfo.HtmlDict

HtmlDict_about(self, new_html) ==
    IF self.immutable /\ HasAttr(self, "about")
    THEN Raise("AttributeError", self)
    ELSE IF ~IsInstance(new_html, {"str"})
    THEN Raise("TypeError", self)
    ELSE Return(SetSlot(self, "about", new_html))

HtmlDict_community(self, new_html) ==
    IF self.immutable /\ HasAttr(self, "community")
    THEN Raise("AttributeError", self)
    ELSE IF ~IsInstance(new_html, {"str"})
    THEN Raise("TypeError", self)
    ELSE Return(SetSlot(self, "community", new_html))

HtmlDict_featured_channels(self, new_html) ==
    IF self.immutable /\ HasAttr(self, "featured_channels")
    THEN Raise("AttributeError", self)
    ELSE IF ~IsInstance(new_html, {"str"})
    THEN Raise("TypeError", self)
    ELSE Return(SetSlot(self, "featured_channels", new_html))

HtmlDict_videos(self, new_html) ==
    IF self.immutable /\ HasAttr(self, "videos")
    THEN Raise("AttributeError", self)
    ELSE IF ~IsInstance(new_html, {"str"})
    THEN Raise("TypeError", self)
    ELSE Return(SetSlot(self, "videos", new_html))

HtmlDict_keys == <<"about", "community", "featured_channels", "videos">>

HtmlDict_setattr(self, key, val) ==
    CASE key = "about" -> HtmlDict_about(self, val)
      [] key = "community" -> HtmlDict_community(self, val)
      [] key = "featured_channels" -> HtmlDict_featured_channels(self, val)
      [] key = "videos" -> HtmlDict_videos(self, val)

RECURSIVE HtmlDict_assign(_, _, _)
HtmlDict_assign(self, order, args) ==
    IF order = <<>> THEN Return(self)
    ELSE LET r == HtmlDict_setattr(self, Head(order), args[Head(order)])
         IN IF r.exc # "" THEN Raise(r.exc, NoObject)
            ELSE HtmlDict_assign(r.self, Tail(order), args)

\* HtmlDict.__init__: args maps the four field names to the values passed.
HtmlDict_init(args, immutable) ==
    LET base == PropertyDict_init("HtmlDict", immutable)
    IN IF base.exc # "" THEN base
       ELSE HtmlDict_assign(base.self, HtmlDict_keys, args)

\* ChannelInfo.HtmlDict(**d) for a plain mapping d: a missing or an unexpected
\* keyword is a TypeError of the call itself.
HtmlDict_from_mapping(d) ==
    IF ~(Range(HtmlDict_keys) \subseteq DOMAIN d)
       \/ ~(DOMAIN d \subseteq Range(HtmlDict_keys) \cup {"immutable"})
    THEN Raise("TypeError", NoObject)
    ELSE HtmlDict_init(d, IF "immutable" \in DOMAIN d THEN d["immutable"]
                          ELSE Bool(FALSE))

HtmlDict_setitem(self, key, val) ==
    IF ~IsInstance(key, {"str"})
    THEN Raise("TypeError", self)
    ELSE IF key.s \notin Range(HtmlDict_keys)
    THEN Raise("KeyError", self)
    ELSE HtmlDict_setattr(self, key.s, val)

\* ------------------------------------------------------------ ChannelInfo
\* The setters of ChannelInfo work on the record and on the heap of HtmlDict
\* objects: the html setter writes the _immutable flag of the object it is
\* given.  Their outcome therefore carries the heap as well.

RaiseH(e, self, heap) == [exc |-> e, self |-> self, heap |-> heap]
ReturnH(self, heap) == [exc |-> "", self |-> self, heap |-> heap]

\* The slot a newly constructed HtmlDict gets: the lowest free one.
FreeHtml(heap) == {h \in DOMAIN heap : heap[h] = NoObject}
NewHtmlSlot(heap) == CHOOSE h \in FreeHtml(heap) : \A g \in FreeHtml(heap) : h <= g

\* The channel_id setter with one guard for type and format, which raises
\* ValueError.
ChannelInfo_channel_id_one_guard(self, new_id) ==
    IF self.immutable /\ HasAttr(self, "channel_id")
    THEN Raise("AttributeError", self)
    ELSE IF ~IsInstance(new_id, {"str"})
    THEN Raise("ValueError", self)
    ELSE IF Len(new_id.s) # 24 \/ ~StartsWith(new_id.s, "UC")
    THEN Raise("ValueError", self)
    ELSE Return(SetSlot(self, "channel_id", new_id))

ChannelInfo_channel_id(self, new_id) ==
    IF self.immutable /\ HasAttr(self, "channel_id")
    THEN Raise("AttributeError", self)
    ELSE IF ~IsInstance(new_id, {"str"})
    THEN Raise("TypeError", self)
    ELSE IF Len(new_id.s) # 24 \/ ~StartsWith(new_id.s, "UC")
    THEN Raise("ValueError", self)
    ELSE Return(SetSlot(self, "channel_id", new_id))

ChannelInfo_channel_name(self, new_name) ==
    IF self.immutable /\ HasAttr(self, "channel_name")
    THEN Raise("AttributeError", self)
    ELSE IF ~IsInstance(new_name, {"str"})
    THEN Raise("TypeError", self)
    ELSE IF new_name.s = ""
    THEN Raise("ValueError", self)
    ELSE Return(SetSlot(self, "channel_name", new_name))

ChannelInfo_html(self, new_html, heap) ==
    IF self.immutable /\ HasAttr(self, "html")
    THEN RaiseH("AttributeError", self, heap)
    ELSE IF ~IsInstance(new_html, {"HtmlDict", "dict"})
    THEN RaiseH("TypeError", self, heap)
    ELSE IF IsInstance(new_html, {"dict"})
    THEN LET r == HtmlDict_from_mapping(new_html.d)
             h == NewHtmlSlot(heap)
         IN IF r.exc \in {"TypeError", "ValueError"}
            THEN RaiseH("ValueError", self, heap)
            ELSE ReturnH(SetSlot(self, "html", HtmlRef(h)),
                         [heap EXCEPT ![h] =
                             [r.self EXCEPT !.immutable = self.immutable]])
    ELSE ReturnH(SetSlot(self, "html", new_html),
                 [heap EXCEPT ![new_html.ref].immutable = self.immutable])

\* The last_updated setter without the comparison with the clock.
ChannelInfo_last_updated_any_time(self, new_time, current_time) ==
    IF self.immutable /\ HasAttr(self, "last_updated")
    THEN Raise("AttributeError", self)
    ELSE IF ~IsInstance(new_time, {"datetime"})
    THEN Raise("TypeError", self)
    ELSE IF ~new_time.tz
    THEN Raise("ValueError", self)
    ELSE Return(SetSlot(self, "last_updated", new_time))

ChannelInfo_last_updated(self, new_time, current_time) ==
    IF self.immutable /\ HasAttr(self, "last_updated")
    THEN Raise("AttributeError", self)
    ELSE IF ~IsInstance(new_time, {"datetime"})
    THEN Raise("TypeError", self)
    ELSE IF ~new_time.tz
    THEN Raise("ValueError", self)
    ELSE IF new_time.t > current_time
    THEN Raise("ValueError", self)
    ELSE Return(SetSlot(self, "last_updated", new_time))

ChannelInfo_keys == <<"channel_id", "channel_name", "html", "last_updated">>

WithHeap(r, heap) == [exc |-> r.exc, self |-> r.self, heap |-> heap]

ChannelInfo_setattr(self, key, val, current_time, heap) ==
    CASE key = "channel_id" -> WithHeap(ChannelInfo_channel_id(self, val), heap)
      [] key = "channel_name" ->
            WithHeap(ChannelInfo_channel_name(self, val), heap)
      [] key = "html" -> ChannelInfo_html(self, val, heap)
      [] key = "last_updated" ->
            WithHeap(ChannelInfo_last_updated(self, val, current_time), heap)

ChannelInfo_setitem(self, key, val, current_time, heap) ==
    IF ~IsInstance(key, {"str"})
    THEN RaiseH("TypeError", self, heap)
    ELSE IF key.s \notin Range(ChannelInfo_keys)
    THEN RaiseH("KeyError", self, heap)
    ELSE ChannelInfo_setattr(self, key.s, val, current_time, heap)

\* ChannelInfo.__init__: three assignments, then the construction of the
\* HtmlDict (whose errors propagate as they are) and its assignment to html.
ChannelInfo_init(args, immutable, current_time, heap) ==
    LET base == PropertyDict_init("ChannelInfo", immutable)
        r1 == ChannelInfo_channel_id(base.self, args["channel_id"])
        r2 == ChannelInfo_channel_name(r1.self, args["channel_name"])
        r3 == ChannelInfo_last_updated(r2.self, args["last_updated"],
                                       current_time)
        made == HtmlDict_init(
                    [about |-> args["about_html"],
                     community |-> args["community_html"],
                     featured_channels |-> args["featured_channels_html"],
                     videos |-> args["videos_html"]], immutable)
        h == NewHtmlSlot(heap)
    IN IF base.exc # "" THEN RaiseH(base.exc, NoObject, heap)
       ELSE IF r1.exc # "" THEN RaiseH(r1.exc, NoObject, heap)
       ELSE IF r2.exc # "" THEN RaiseH(r2.exc, NoObject, heap)
       ELSE IF r3.exc # "" THEN RaiseH(r3.exc, NoObject, heap)
       ELSE IF made.exc # "" THEN RaiseH(made.exc, NoObject, heap)
       ELSE ChannelInfo_html(r3.self, HtmlRef(h),
                             [heap EXCEPT ![h] = made.self])

\* ------------------------------------------- arguments tried by the model
\* For every property: the value the constructors are given, a second valid
\* value, badly formatted values and one value of a wrong type.

ChannelIdArgs ==
    {Str("UCaaaaaaaaaaaaaaaaaaaaaa"), Str("UCbbbbbbbbbbbbbbbbbbbbbb"),
     Str("UCshort"), Str("XXaaaaaaaaaaaaaaaaaaaaaa"), PyInt(24)}
NameArgs == {Str("name"), Str("other"), Str(""), None}
VideoIdArgs == {Str("aaaaaaaaaaa"), Str("bbbbbbbbbbb"), Str("short"), PyInt(11)}
AwareDates == {Datetime(t, TRUE) : t \in Times}
DateArgs == AwareDates \cup {Datetime(1, FALSE), Str("2020-01-01")}
DurationArgs == {Timedelta(60), Timedelta(0), Timedelta(-1), PyInt(60)}
DescriptionArgs == {Str("text"), Str(""), None}
KeywordArgs ==
    {List(<<Str("k")>>), Tuple(<<Str("k"), Str("l")>>), PySet(<<Str("l")>>),
     List(<<Str("k"), Str("")>>), List(<<PyInt(1)>>), Str("k")}
UrlArgs == {Str("https://a.b/c.jpg"), Str("http://a.b"), Str("not a url"), None}
HtmlTextArgs == {Str(""), Str("<p>"), None}
ImmutableArgs == {Bool(TRUE), Bool(FALSE), Str("yes")}

VideoInfo_args(key) ==
    CASE key = "channel_id" -> ChannelIdArgs
      [] key = "channel_name" -> NameArgs
      [] key = "description" -> DescriptionArgs
      [] key = "duration" -> DurationArgs
      [] key = "keywords" -> KeywordArgs
      [] key = "last_updated" -> DateArgs
      [] key = "publish_date" -> DateArgs
      [] key = "thumbnail_url" -> UrlArgs
      [] key = "video_id" -> VideoIdArgs
      [] key = "video_title" -> NameArgs

\* Constructor calls: valid arguments with every pair of dates and every
\* kind of keyword collection, and these with one argument replaced by any
\* other value of its property.
VideoInfo_valid_args ==
    [channel_id |-> Str("UCaaaaaaaaaaaaaaaaaaaaaa"),
     channel_name |-> Str("name"), video_id |-> Str("aaaaaaaaaaa"),
     video_title |-> Str("name"), publish_date |-> Datetime(0, TRUE),
     last_updated |-> Datetime(1, TRUE), duration |-> Timedelta(60),
     description |-> Str("text"), keywords |-> List(<<Str("k")>>),
     thumbnail_url |-> Str("https://a.b/c.jpg")]

VideoInfo_init_args ==
    {[VideoInfo_valid_args EXCEPT !["publish_date"] = pd,
                                  !["last_updated"] = lu,
                                  !["keywords"] = kw] :
        pd \in AwareDates, lu \in AwareDates,
        kw \in {List(<<Str("k")>>), Tuple(<<Str("k"), Str("l")>>),
                PySet(<<Str("l")>>)}}
    \cup UNION {{[VideoInfo_valid_args EXCEPT ![key] = val] :
                    val \in VideoInfo_args(key)} :
                 key \in DOMAIN VideoInfo_valid_args}

\* Plain mappings given to the html setter.
HtmlMappings ==
    {Dict([about |-> Str("<p>"), community |-> Str(""),
           featured_channels |-> Str(""), videos |-> Str("")]),
     Dict([about |-> Str("<p>"), community |-> Str(""),
           featured_channels |-> Str(""), videos |-> Str(""),
           immutable |-> Bool(TRUE)]),
     Dict([about |-> Str("<p>"), community |-> Str("")]),
     Dict([about |-> None, community |-> Str(""),
           featured_channels |-> Str(""), videos |-> Str("")])}

Allocated(heap) == {h \in DOMAIN heap : heap[h] # NoObject}

ChannelInfo_args(key, heap) ==
    CASE key = "channel_id" -> ChannelIdArgs
      [] key = "channel_name" -> NameArgs
      [] key = "html" ->
            {HtmlRef(h) : h \in Allocated(heap)} \cup HtmlMappings
                \cup {Str("<p>")}
      [] key = "last_updated" -> DateArgs

ChannelInfo_valid_args ==
    [channel_id |-> Str("UCaaaaaaaaaaaaaaaaaaaaaa"),
     channel_name |-> Str("name"), last_updated |-> Datetime(1, TRUE),
     about_html |-> Str(""), community_html |-> Str(""),
     featured_channels_html |-> Str(""), videos_html |-> Str("")]

ChannelInfo_init_args ==
    {[ChannelInfo_valid_args EXCEPT !["channel_id"] = val] :
        val \in ChannelIdArgs}
    \cup {[ChannelInfo_valid_args EXCEPT !["channel_name"] = val] :
        val \in NameArgs}
    \cup {[ChannelInfo_valid_args EXCEPT !["last_updated"] = val] :
        val \in DateArgs}
    \cup {[ChannelInfo_valid_args EXCEPT ![key] = val] :
        key \in {"about_html", "videos_html"}, val \in HtmlTextArgs}

HtmlDict_init_args ==
    {[about |-> ab, community |-> Str(""), featured_channels |-> Str(""),
      videos |-> vi] : ab \in HtmlTextArgs, vi \in {Str(""), None}}

\* Keys given to record[key] = val.
KeyArgs(keys) ==
    {Str(keys[i]) : i \in DOMAIN keys}
        \cup {Str("immutable"), Str("no_such_key"), PyInt(0)}

\* ------------------------------------------------- actions on the records
\* last is the most recent call: the operation, the class of its target, the
\* property it names, the value passed (for a constructor the immutable flag)
\* and the exception raised ("" for none); calls counts the calls that
\* returned.

Call(op, cls, key, val, exc) ==
    [op |-> op, cls |-> cls, key |-> key, val |-> val, exc |-> exc]

Counted(exc) == IF exc = "" THEN calls + 1 ELSE calls

\* A VideoInfo shares no state with a ChannelInfo or an HtmlDict: a behaviour
\* works either on the one VideoInfo or on ChannelInfo and HtmlDict objects.
NoChannels ==
    /\ \A c \in DOMAIN chans : chans[c] = NoObject
    /\ \A h \in DOMAIN htmls : htmls[h] = NoObject

\* An exception that is raised ends the behaviour: a call that raises leaves
\* the objects as they were (which the properties below check for each such
\* call), so the calls after a caught exception start from a state that is
\* explored anyway.
Running == last.exc = ""

\* The clock (datetime.now) advances between calls.
Tick ==
    /\ Running
    /\ now < MaxTime
    /\ now' = now + 1
    /\ UNCHANGED <<video, chans, htmls, stats, last, calls>>
    /\ UNCHANGED <<frame, files>>

NewVideoInfo(args, immutable) ==
    /\ video = NoObject
    /\ NoChannels
    /\ Running
    /\ LET r == VideoInfo_init(args, immutable, now)
       IN /\ video' = r.self
          /\ last' = Call("init", "VideoInfo", "", immutable, r.exc)
          /\ calls' = Counted(r.exc)
    /\ UNCHANGED <<now, chans, htmls, stats>>
    /\ UNCHANGED <<frame, files>>

\* video.key = val
VideoSetAttr(key, val) ==
    /\ video # NoObject
    /\ Running
    /\ LET r == VideoInfo_setattr(video, key, val, now)
       IN /\ video' = r.self
          /\ last' = Call("setattr", "VideoInfo", key, val, r.exc)
          /\ calls' = Counted(r.exc)
    /\ UNCHANGED <<now, chans, htmls, stats>>
    /\ UNCHANGED <<frame, files>>

\* video[key] = val
VideoSetItem(key, val) ==
    /\ video # NoObject
    /\ Running
    /\ LET r == VideoInfo_setitem(video, key, val, now)
       IN /\ video' = r.self
          /\ last' = Call("setitem", "VideoInfo",
                          IF IsInstance(key, {"str"}) THEN key.s ELSE "", val,
                          r.exc)
          /\ calls' = Counted(r.exc)
    /\ UNCHANGED <<now, chans, htmls, stats>>
    /\ UNCHANGED <<frame, files>>

NewChannelInfo(c, args, immutable) ==
    /\ video = NoObject
    /\ chans[c] = NoObject
    /\ \A b \in DOMAIN chans : b < c => chans[b] # NoObject
    /\ FreeHtml(htmls) # {}
    /\ Running
    /\ LET r == ChannelInfo_init(args, immutable, now, htmls)
       IN /\ chans' = [chans EXCEPT ![c] = r.self]
          /\ htmls' = r.heap
          /\ last' = Call("init", "ChannelInfo", "", immutable, r.exc)
          /\ calls' = Counted(r.exc)
    /\ UNCHANGED <<now, video, stats>>
    /\ UNCHANGED <<frame, files>>

\* chans[c].key = val
ChannelSetAttr(c, key, val) ==
    /\ chans[c] # NoObject
    /\ IsInstance(val, {"dict"}) => FreeHtml(htmls) # {}
    /\ Running
    /\ LET r == ChannelInfo_setattr(chans[c], key, val, now, htmls)
       IN /\ chans' = [chans EXCEPT ![c] = r.self]
          /\ htmls' = r.heap
          /\ last' = Call("setattr", "ChannelInfo", key, val, r.exc)
          /\ calls' = Counted(r.exc)
    /\ UNCHANGED <<now, video, stats>>
    /\ UNCHANGED <<frame, files>>

\* chans[c][key] = val
ChannelSetItem(c, key, val) ==
    /\ chans[c] # NoObject
    /\ IsInstance(val, {"dict"}) => FreeHtml(htmls) # {}
    /\ Running
    /\ LET r == ChannelInfo_setitem(chans[c], key, val, now, htmls)
       IN /\ chans' = [chans EXCEPT ![c] = r.self]
          /\ htmls' = r.heap
          /\ last' = Call("setitem", "ChannelInfo",
                          IF IsInstance(key, {"str"}) THEN key.s ELSE "", val,
                          r.exc)
          /\ calls' = Counted(r.exc)
    /\ UNCHANGED <<now, video, stats>>
    /\ UNCHANGED <<frame, files>>

\* ChannelInfo.HtmlDict(...) on its own
NewHtmlDict(args, immutable) ==
    /\ video = NoObject
    /\ FreeHtml(htmls) # {}
    /\ Running
    /\ LET r == HtmlDict_init(args, immutable)
       IN /\ htmls' = IF r.exc = "" THEN
                         [htmls EXCEPT ![NewHtmlSlot(htmls)] = r.self]
                      ELSE htmls
          /\ last' = Call("init", "HtmlDict", "", immutable, r.exc)
          /\ calls' = Counted(r.exc)
    /\ UNCHANGED <<now, video, chans, stats>>
    /\ UNCHANGED <<frame, files>>

\* htmls[h].key = val
HtmlSetAttr(h, key, val) ==
    /\ htmls[h] # NoObject
    /\ Running
    /\ LET r == HtmlDict_setattr(htmls[h], key, val)
       IN /\ htmls' = [htmls EXCEPT ![h] = r.self]
          /\ last' = Call("setattr", "HtmlDict", key, val, r.exc)
          /\ calls' = Counted(r.exc)
    /\ UNCHANGED <<now, video, chans, stats>>
    /\ UNCHANGED <<frame, files>>

\* htmls[h][key] = val
HtmlSetItem(h, key, val) ==
    /\ htmls[h] # NoObject
    /\ Running
    /\ LET r == HtmlDict_setitem(htmls[h], key, val)
       IN /\ htmls' = [htmls EXCEPT ![h] = r.self]
          /\ last' = Call("setitem", "HtmlDict",
                          IF IsInstance(key, {"str"}) THEN key.s ELSE "", val,
                          r.exc)
          /\ calls' = Counted(r.exc)
    /\ UNCHANGED <<now, video, chans, stats>>
    /\ UNCHANGED <<frame, files>>

InitInfo ==
    /\ now = 1
    /\ video = NoObject
    /\ chans = [c \in 1..MaxChan |-> NoObject]
    /\ htmls = [h \in 1..MaxHtml |-> NoObject]
    /\ stats = NoStats
    /\ frame = NoFrame
    /\ files = NoFiles
    /\ last = Call("", "", "", None, "")
    /\ calls = 0

\* The values a call video[key] = val is given: those of the field when key
\* names one, a string otherwise.
ItemArgs_VideoInfo(key) ==
    IF IsInstance(key, {"str"}) /\ key.s \in Range(VideoInfo_keys)
    THEN VideoInfo_args(key.s) ELSE {Str("name")}

ItemArgs_ChannelInfo(key, heap) ==
    IF IsInstance(key, {"str"}) /\ key.s \in Range(ChannelInfo_keys)
    THEN ChannelInfo_args(key.s, heap) ELSE {Str("name")}

NextInfo ==
    \/ Tick
    \/ /\ calls < MaxVideoCalls
       /\ \E args \in VideoInfo_init_args, immutable \in ImmutableArgs :
             NewVideoInfo(args, immutable)
    \/ /\ calls < MaxVideoCalls
       /\ \E key \in Range(VideoInfo_keys) : \E val \in VideoInfo_args(key) :
             VideoSetAttr(key, val)
    \/ /\ calls < MaxVideoCalls
       /\ \E key \in KeyArgs(VideoInfo_keys) :
             \E val \in ItemArgs_VideoInfo(key) : VideoSetItem(key, val)
    \/ /\ calls < MaxChannelCalls
       /\ \E c \in 1..MaxChan, args \in ChannelInfo_init_args,
             immutable \in ImmutableArgs : NewChannelInfo(c, args, immutable)
    \/ /\ calls < MaxChannelCalls
       /\ \E c \in 1..MaxChan, key \in Range(ChannelInfo_keys) :
             \E val \in ChannelInfo_args(key, htmls) :
                 ChannelSetAttr(c, key, val)
    \/ /\ calls < MaxChannelCalls
       /\ \E c \in 1..MaxChan, key \in KeyArgs(ChannelInfo_keys) :
             \E val \in ItemArgs_ChannelInfo(key, htmls) :
                 ChannelSetItem(c, key, val)
    \/ /\ calls < MaxChannelCalls
       /\ \E args \in HtmlDict_init_args, immutable \in ImmutableArgs :
             NewHtmlDict(args, immutable)
    \/ /\ calls < MaxChannelCalls
       /\ \E h \in 1..MaxHtml, key \in Range(HtmlDict_keys) :
             \E val \in HtmlTextArgs : HtmlSetAttr(h, key, val)
    \/ /\ calls < MaxChannelCalls
       /\ \E h \in 1..MaxHtml, key \in KeyArgs(HtmlDict_keys) :
             \E val \in HtmlTextArgs : HtmlSetItem(h, key, val)

SpecInfo == InitInfo /\ [][NextInfo]_vars

\* ===================================================================== Stats
\* A Stats object holds one DataFrame, self._data: its rows in positional
\* order, each with its index label, and the dtypes of the columns whose dtype
\* a call can change.  A timestamp is Datetime(t, tz): the instant t, with or
\* without timezone information; a naive t and an aware t denote the same
\* instant once the naive one is localized.

\* Calls on a Stats object that return, its construction included.
MaxStatsCalls == 3
MaxDataRows == 2

NA == [type |-> "NA"]
Float(num, den) == [type |-> "float", num |-> num, den |-> den]
\* An int beyond the range of int64, such as 2 ** 64.
Huge == [type |-> "int", huge |-> TRUE]
IsHuge(v) == "huge" \in DOMAIN v

\* datatube.check.is_video_id
is_video_id(s) == Len(s) = 11

expected_columns ==
    <<"video_id", "timestamp", "views", "rating", "likes", "dislikes">>

\* typespec of each expected column, as check_dtypes names it
expected_types ==
    [video_id |-> "str", timestamp |-> "datetime", views |-> "int",
     rating |-> "float", likes |-> "int", dislikes |-> "int"]

Row(label, video_id, timestamp, views, rating, likes, dislikes) ==
    [label |-> label, video_id |-> video_id, timestamp |-> timestamp,
     views |-> views, rating |-> rating, likes |-> likes,
     dislikes |-> dislikes]

DataFrame(columns, types, tz, rows) ==
    [type |-> "DataFrame", columns |-> columns, types |-> types, tz |-> tz,
     rows |-> rows]

TimestampDtype(tz) == IF tz THEN "datetime64[ns, UTC]" ELSE "datetime64[ns]"

NewStatsObject(rows, tz) ==
    [class |-> "Stats", rows |-> rows,
     dtypes |-> [timestamp |-> TimestampDtype(tz), views |-> "Int64"]]

\* check_dtypes(data, col_name=typespec) for one column
check_dtypes(data, col_name, typespec) == data.types[col_name] = typespec

\* data.dropna(subset=["video_id", "timestamp"]): the rows keep their labels
dropna(rows) ==
    SelectSeq(rows, LAMBDA r : r.video_id # NA /\ r.timestamp # NA)

\* data.drop_duplicates(subset=["video_id", "timestamp"]): the first row of
\* each pair is kept, with its label
RECURSIVE drop_duplicates(_, _)
drop_duplicates(rows, seen) ==
    IF rows = <<>> THEN <<>>
    ELSE LET r == Head(rows)
             pair == <<r.video_id, r.timestamp>>
         IN IF pair \in seen THEN drop_duplicates(Tail(rows), seen)
            ELSE <<r>> \o drop_duplicates(Tail(rows), seen \cup {pair})

\* An exception whose message names the columns in context.
RaiseContext(e, self, context) ==
    [exc |-> e, self |-> self, context |-> context]

\* The context of the error message of lines 140-149, with the missing
\* columns only.
unexpected_columns_missing_only(columns) ==
    [missing |-> Range(expected_columns) \ columns, extra |-> {}]

\* The columns that the error message of lines 140-149 names as missing and
\* as extra: both sets when both are non-empty, else the non-empty one.
unexpected_columns(columns) ==
    LET missing_columns == Range(expected_columns) \ columns
        extra_columns == columns \ Range(expected_columns)
    IN IF missing_columns # {} /\ extra_columns # {}
       THEN [missing |-> missing_columns, extra |-> extra_columns]
       ELSE IF missing_columns # {}
       THEN [missing |-> missing_columns, extra |-> {}]
       ELSE [missing |-> {}, extra |-> extra_columns]

\* check_timestamp of Stats.__init__, with datetime.now(timezone.utc) = the
\* clock: a timestamp later than it raises as one without timezone does.
check_timestamp_future_raises(timestamp) ==
    IF ~timestamp.tz THEN "ValueError"
    ELSE IF timestamp.t > now THEN "ValueError"
    ELSE ""

\* check_timestamp of Stats.__init__: a timestamp without timezone raises
\* ValueError; for a timestamp later than datetime.now(timezone.utc) the
\* message is built (lines 180-182) and nothing is raised.
check_timestamp(timestamp) ==
    IF ~timestamp.tz THEN "ValueError" ELSE ""

\* Stats(data, interpolate)
Stats_init(data, interpolate) ==
    IF data = None
    THEN Return(NewStatsObject(<<>>, FALSE))
    ELSE IF ~IsInstance(data, {"DataFrame"})
    THEN Raise("TypeError", NoStats)
    ELSE IF data.columns # Range(expected_columns)
    THEN RaiseContext("ValueError", NoStats, unexpected_columns(data.columns))
    ELSE IF \E i \in DOMAIN expected_columns :
               ~check_dtypes(data, expected_columns[i],
                             expected_types[expected_columns[i]])
    THEN Raise("TypeError", NoStats)
    ELSE LET rows == drop_duplicates(dropna(data.rows), {})
         IN IF \E i \in DOMAIN rows : ~is_video_id(rows[i].video_id.s)
            THEN Raise("ValueError", NoStats)
            ELSE IF \E i \in DOMAIN rows :
                       check_timestamp(rows[i].timestamp) # ""
            THEN Raise("ValueError", NoStats)
            ELSE IF interpolate
            THEN Raise("NotImplementedError", NoStats)
            ELSE Return(NewStatsObject(rows, data.tz))

\* The video ids of the model in the order of Python's str comparison, which
\* sort_values follows.
VideoIdOrder == <<"aaaaaaaaaaa", "bbbbbbbbbbb">>
Rank(video_id) ==
    CHOOSE i \in DOMAIN VideoIdOrder : VideoIdOrder[i] = video_id.s

\* (video_id, timestamp) of row r is at most that of row q
KeyLeq(r, q) ==
    \/ Rank(r.video_id) < Rank(q.video_id)
    \/ r.video_id = q.video_id /\ r.timestamp.t <= q.timestamp.t

RECURSIVE Insert(_, _)
Insert(r, sorted) ==
    IF sorted = <<>> THEN <<r>>
    ELSE IF KeyLeq(Head(sorted), r)
    THEN <<Head(sorted)>> \o Insert(r, Tail(sorted))
    ELSE <<r>> \o sorted

\* self._data.sort_values(["video_id", "timestamp"]): a stable sort, the rows
\* keep their labels
RECURSIVE sort_values(_)
sort_values(rows) ==
    IF rows = <<>> THEN <<>>
    ELSE Insert(rows[Len(rows)], sort_values(SubSeq(rows, 1, Len(rows) - 1)))

Negative(v) == ~IsHuge(v) /\ v.n < 0

\* not 0 <= rating <= 5
RatingOutOfRange(rating) ==
    IF IsInstance(rating, {"int"})
    THEN IsHuge(rating) \/ rating.n < 0 \/ rating.n > 5
    ELSE rating.num < 0 \/ rating.num > 5 * rating.den

\* A missing value is stored as NA.
Stored(v) == IF v = None THEN NA ELSE v

\* astype(Float64) of a rating
AsFloat(v) == IF IsInstance(v, {"int"}) THEN Float(v.n, 1) ELSE v

\* The timestamp dtype restored: a naive timestamp in a timezone-aware column
\* is localized.
Localized(rows, dtype) ==
    [i \in DOMAIN rows |->
        IF dtype = "datetime64[ns, UTC]" /\ ~rows[i].timestamp.tz
        THEN [rows[i] EXCEPT !.timestamp = Datetime(rows[i].timestamp.t, TRUE)]
        ELSE rows[i]]

\* self._data.loc[len(self._data)] = new_row: the row labelled len(self._data)
\* is overwritten if there is one, else a row with that label is appended.
loc_setitem(rows, new_row) ==
    IF \E i \in DOMAIN rows : rows[i].label = new_row.label
    THEN [i \in DOMAIN rows |->
            IF rows[i].label = new_row.label THEN new_row ELSE rows[i]]
    ELSE Append(rows, new_row)

\* Lines 361-367 of add_row: the row is set, the dtypes of the columns are
\* restored one after the other, the rows are sorted.  Restoring a
\* timezone-aware dtype on a column that now holds a naive timestamp either
\* raises or localizes the timestamp, as the pandas version has it; an int
\* beyond int64 cannot be restored to Int64.  The set of the outcomes.
Stats_add_row_store(self, new_row) ==
    LET rows == loc_setitem(self.rows, new_row)
        mixed == /\ self.dtypes.timestamp = "datetime64[ns, UTC]"
                 /\ ~new_row.timestamp.tz
        unrestored == [self EXCEPT !.rows = rows,
                                   !.dtypes.timestamp = "object"]
        localized == Localized(rows, self.dtypes.timestamp)
        restored ==
            IF IsHuge(new_row.views)
            THEN Raise("OverflowError",
                       [self EXCEPT !.rows = localized,
                                    !.dtypes.views = "object"])
            ELSE Return(
                    [self EXCEPT !.rows = sort_values(
                        [i \in DOMAIN localized |->
                            [localized[i] EXCEPT
                                !.rating = AsFloat(localized[i].rating)]])])
    IN IF mixed
       THEN {Raise("ValueError", unrestored), Raise("TypeError", unrestored),
             restored}
       ELSE {restored}

\* Stats.add_row(video_id, timestamp, views, rating, likes, dislikes), with
\* datetime.now() = current_time: the set of its outcomes.
Stats_add_row(self, a, current_time) ==
    IF ~IsInstance(a.video_id, {"str"}) THEN {Raise("TypeError", self)}
    ELSE IF ~is_video_id(a.video_id.s) THEN {Raise("ValueError", self)}
    ELSE IF ~IsInstance(a.timestamp, {"datetime"})
    THEN {Raise("TypeError", self)}
    \* datetime.now() is naive: comparing an aware timestamp with it raises
    ELSE IF a.timestamp.tz THEN {Raise("TypeError", self)}
    ELSE IF a.timestamp.t > current_time THEN {Raise("ValueError", self)}
    ELSE IF ~IsInstance(a.views, {"int"}) THEN {Raise("TypeError", self)}
    ELSE IF Negative(a.views) THEN {Raise("ValueError", self)}
    ELSE IF a.rating # None /\ ~IsInstance(a.rating, {"int", "float"})
    THEN {Raise("TypeError", self)}
    ELSE IF a.rating # None /\ RatingOutOfRange(a.rating)
    THEN {Raise("ValueError", self)}
    ELSE IF a.likes # None /\ ~IsInstance(a.likes, {"int"})
    THEN {Raise("TypeError", self)}
    ELSE IF a.likes # None /\ Negative(a.likes)
    THEN {Raise("ValueError", self)}
    ELSE IF a.dislikes # None /\ ~IsInstance(a.dislikes, {"int"})
    THEN {Raise("TypeError", self)}
    ELSE IF a.dislikes # None /\ Negative(a.dislikes)
    THEN {Raise("ValueError", self)}
    \* a timezone-aware column never equals a naive timestamp
    ELSE IF \E i \in DOMAIN self.rows :
               /\ self.rows[i].video_id = a.video_id
               /\ self.rows[i].timestamp = a.timestamp
    THEN {Raise("ValueError", self)}
    ELSE IF a.rating = None /\ a.likes # None /\ a.dislikes # None
            /\ a.likes.n + a.dislikes.n = 0
    THEN {Raise("ZeroDivisionError", self)}
    ELSE LET rating ==
                 IF a.rating = None /\ a.likes # None /\ a.dislikes # None
                 THEN Float(5 * a.likes.n, a.likes.n + a.dislikes.n)
                 ELSE Stored(a.rating)
         IN Stats_add_row_store(self,
                Row(Len(self.rows), a.video_id, a.timestamp, a.views, rating,
                    Stored(a.likes), Stored(a.dislikes)))

\* The fields of a row in the mapping most_recent returns.
Fields(r) ==
    [timestamp |-> r.timestamp, views |-> r.views, rating |-> r.rating,
     likes |-> r.likes, dislikes |-> r.dislikes]

\* groupby("video_id")["timestamp"].idxmax(): for each video id, in sorted
\* order, the label of the first row that has its greatest timestamp
idxmax(rows) ==
    LET label(id) ==
            LET group == {i \in DOMAIN rows : rows[i].video_id.s = id}
                first == CHOOSE i \in group :
                            \A j \in group :
                                \/ rows[j].timestamp.t < rows[i].timestamp.t
                                \/ /\ rows[j].timestamp.t = rows[i].timestamp.t
                                   /\ i <= j
            IN rows[first].label
        present == SelectSeq(VideoIdOrder,
                     LAMBDA id : \E i \in DOMAIN rows : rows[i].video_id.s = id)
    IN [k \in DOMAIN present |-> label(present[k])]

\* Stats.most_recent: the labels idxmax returns are used as positions by
\* iloc; the mapping holds, for each video id among the rows selected, the
\* last of them.
Stats_most_recent(self) ==
    LET indices == idxmax(self.rows)
    IN IF \E k \in DOMAIN indices : indices[k] >= Len(self.rows)
       THEN [exc |-> "IndexError", val |-> None]
       ELSE LET subset == [k \in DOMAIN indices |-> self.rows[indices[k] + 1]]
                ids == {subset[k].video_id.s : k \in DOMAIN subset}
                pick(id) == CHOOSE k \in DOMAIN subset :
                               /\ subset[k].video_id.s = id
                               /\ \A j \in DOMAIN subset :
                                     subset[j].video_id.s = id => j <= k
            IN [exc |-> "",
                val |-> Dict([id \in ids |-> Fields(subset[pick(id)])])]

\* ------------------------------------------------ the calls made on Stats
VideoA == Str(VideoIdOrder[1])
VideoB == Str(VideoIdOrder[2])

\* The rows of a dataset: labelled 0, 1, ... in order, views telling them
\* apart; the timestamps of one column are all naive or all timezone-aware,
\* some of them in the future; a row may have a bad video id, or lack its
\* video id or its timestamp.
DataRowArgs(tz) ==
    {[video_id |-> id, timestamp |-> Datetime(t, tz)] :
        id \in {VideoA, VideoB}, t \in Times}
    \cup {[video_id |-> Str("short"), timestamp |-> Datetime(0, tz)],
          [video_id |-> NA, timestamp |-> Datetime(0, tz)],
          [video_id |-> VideoA, timestamp |-> NA]}

DataRows(tz) ==
    UNION {{[i \in 1..n |->
                Row(i - 1, f[i].video_id, f[i].timestamp, PyInt(i), NA, NA, NA)] :
              f \in [1..n -> DataRowArgs(tz)]} : n \in 0..MaxDataRows}

\* Column sets other than the expected one: a column missing, a column too
\* many, a column under another name.
OtherColumns ==
    {Range(expected_columns) \ {"dislikes"},
     Range(expected_columns) \cup {"comments"},
     (Range(expected_columns) \ {"views"}) \cup {"view_count"}}

\* The typespec check_dtypes finds for each column of a dataset.
ColumnTypes(columns, types) ==
    [c \in columns |-> IF c \in DOMAIN types THEN types[c] ELSE "int"]

DataArgs ==
    {None, List(<<>>)}
    \cup UNION {{DataFrame(Range(expected_columns), expected_types, tz, rows) :
                    rows \in DataRows(tz)} : tz \in BOOLEAN}
    \cup {DataFrame(columns, ColumnTypes(columns, expected_types), TRUE, <<>>) :
            columns \in OtherColumns}
    \cup {DataFrame(columns, ColumnTypes(columns, types), TRUE, <<>>) :
            columns \in OtherColumns \cup {Range(expected_columns)},
            types \in {[expected_types EXCEPT !["timestamp"] = "str"],
                       [expected_types EXCEPT !["video_id"] = "object"],
                       [expected_types EXCEPT !["views"] = "float"]}}

AddRowCall(video_id, timestamp, views, rating, likes, dislikes) ==
    [video_id |-> video_id, timestamp |-> timestamp, views |-> views,
     rating |-> rating, likes |-> likes, dislikes |-> dislikes]

\* rating, likes and dislikes of the calls that pass the checks
CountArgs ==
    {<<None, None, None>>, <<None, PyInt(4), PyInt(1)>>,
     <<None, PyInt(0), PyInt(0)>>, <<Float(9, 2), PyInt(4), PyInt(1)>>,
     <<PyInt(3), None, PyInt(1)>>}

\* The calls of add_row: those whose arguments pass the type and range
\* checks, with naive and timezone-aware timestamps, and these with one
\* argument out of the int64 range, of the wrong type or out of range.
AddRowArgs ==
    {AddRowCall(id, Datetime(t, tz), PyInt(1), c[1], c[2], c[3]) :
        id \in {VideoA, VideoB}, t \in Times, tz \in BOOLEAN, c \in CountArgs}
    \cup {AddRowCall(VideoA, Datetime(t, FALSE), Huge, None, None, None) :
            t \in Times}
    \cup {AddRowCall(id, Datetime(0, FALSE), PyInt(1), None, None, None) :
            id \in {PyInt(5), Str("short")}}
    \cup {AddRowCall(VideoA, Str("2020-01-01"), PyInt(1), None, None, None)}
    \cup {AddRowCall(VideoA, Datetime(0, FALSE), views, None, None, None) :
            views \in {Str("1"), PyInt(-1)}}
    \cup {AddRowCall(VideoA, Datetime(0, FALSE), PyInt(1), rating, None, None) :
            rating \in {Str("5"), PyInt(6), Float(11, 2)}}
    \cup {AddRowCall(VideoA, Datetime(0, FALSE), PyInt(1), None, likes, None) :
            likes \in {Str("1"), PyInt(-1)}}
    \cup {AddRowCall(VideoA, Datetime(0, FALSE), PyInt(1), None, None, dislikes) :
            dislikes \in {Str("1"), PyInt(-1)}}

IsStats == stats # NoStats

\* stats = Stats(data, interpolate)
NewStats(data, interpolate) ==
    /\ stats = NoStats
    /\ Running
    /\ LET r == Stats_init(data, interpolate)
       IN /\ stats' = r.self
          /\ last' = IF "context" \in DOMAIN r
                     THEN Call("init", "Stats", "", data, r.exc)
                              @@ [context |-> r.context]
                     ELSE Call("init", "Stats", "", data, r.exc)
          /\ calls' = Counted(r.exc)
    /\ UNCHANGED <<now, video, chans, htmls>>
    /\ UNCHANGED <<frame, files>>

\* stats.add_row(**a)
AddRow(a) ==
    /\ IsStats
    /\ Running
    /\ \E r \in Stats_add_row(stats, a, now) :
          /\ stats' = r.self
          /\ last' = Call("add_row", "Stats", "", a, r.exc)
          /\ calls' = Counted(r.exc)
    /\ UNCHANGED <<now, video, chans, htmls>>
    /\ UNCHANGED <<frame, files>>

\* stats.most_recent, of a store that has rows: a read, which calls does not
\* count
MostRecent ==
    /\ IsStats
    /\ Running
    /\ stats.rows # <<>>
    /\ LET r == Stats_most_recent(stats)
       IN last' = Call("most_recent", "Stats", "", r.val, r.exc)
    /\ UNCHANGED <<now, video, chans, htmls, stats, calls>>
    /\ UNCHANGED <<frame, files>>

InitStats == InitInfo

NextStats ==
    \/ Tick
    \/ \E data \in DataArgs, interpolate \in BOOLEAN :
          NewStats(data, interpolate)
    \/ calls < MaxStatsCalls /\ \E a \in AddRowArgs : AddRow(a)
    \/ MostRecent

SpecStats == InitStats /\ [][NextStats]_vars

\* The constructions of a Stats store, on their own.
NextNewStats ==
    \/ Tick
    \/ \E data \in DataArgs, interpolate \in BOOLEAN :
          NewStats(data, interpolate)

SpecNewStats == InitStats /\ [][NextNewStats]_vars

\* --------------------------------------------------------- coerce_dtypes

\* A column of a dataset: its storage type and its values.  float64 holds a
\* missing value as NaN, the nullable types and object hold NA.
Series(dtype, values) == [type |-> "Series", dtype |-> dtype, values |-> values]
NaN == [type |-> "float", nan |-> TRUE]
IsMissing(v) == v = NA \/ v = NaN
\* A dataset for coerce_dtypes: its columns by name.
Frame(cols) == [type |-> "DataFrame", cols |-> cols]
\* A typespec: one of the types of AVAILABLE_DTYPES, or several of them.
PyType(name) == [type |-> "type", name |-> name]

IsIntegral(v) == IsInstance(v, {"float"}) /\ ~IsMissing(v) /\ v.den = 1

\* column.convert_dtypes(): the storage type of the narrowed column.  A float
\* column whose values are all whole numbers narrows to the nullable integer,
\* an object column narrows when its values have one type.
convert_dtypes(column) ==
    LET present == {column.values[i] : i \in DOMAIN column.values} \ {NA, NaN}
        types == {v.type : v \in present}
    IN CASE column.dtype = "int64" -> "Int64"
         [] column.dtype = "bool" -> "boolean"
         [] column.dtype = "float64" ->
              IF \A v \in present : IsIntegral(v) THEN "Int64" ELSE "Float64"
         [] column.dtype = "object" ->
              IF types = {"str"} THEN "string"
              ELSE IF types = {"bool"} THEN "boolean"
              ELSE IF types = {"int"} THEN "Int64"
              ELSE IF types = {"float"} THEN
                  IF \A v \in present : IsIntegral(v) THEN "Int64"
                  ELSE "Float64"
              ELSE "object"
         [] OTHER -> column.dtype

\* The type checks of check_dtypes.dtype_lookup, on a storage type.
is_dtype(typespec, dtype) ==
    CASE typespec = "object" -> dtype = "object"
      [] typespec = "int" -> dtype \in {"int64", "Int64"}
      [] typespec = "float" -> dtype \in {"float64", "Float64"}
      [] typespec = "complex" -> FALSE
      [] typespec = "str" -> dtype \in {"string", "object"}
      [] typespec = "bool" -> dtype \in {"bool", "boolean"}
      [] typespec = "datetime" ->
           dtype \in {"datetime64[ns]", "datetime64[ns, UTC]"}
      [] typespec = "timedelta" -> FALSE

AVAILABLE_DTYPES ==
    {"object", "int", "float", "complex", "str", "bool", "datetime",
     "timedelta"}

\* One typespec against the narrowed type: a column that narrows to object
\* never satisfies str; a typespec that is not a key of dtype_lookup raises.
check_typespec(ts, dtype) ==
    IF ts.name = "str" /\ is_dtype("object", dtype)
    THEN [exc |-> "", val |-> FALSE]
    ELSE IF ts.name \notin AVAILABLE_DTYPES
    THEN [exc |-> "KeyError", val |-> FALSE]
    ELSE [exc |-> "", val |-> is_dtype(ts.name, dtype)]

\* check_dtypes.check_column(col_name, typespec), on the column itself
check_column(column, typespec) ==
    LET narrowed == convert_dtypes(column)
    IN IF ~IsInstance(typespec, {"tuple", "list", "set"})
       THEN check_typespec(typespec, narrowed)
       ELSE LET results == [i \in DOMAIN typespec.elems |->
                               check_typespec(typespec.elems[i], narrowed)]
            IN IF \E i \in DOMAIN results : results[i].exc # ""
               THEN [exc |-> "KeyError", val |-> FALSE]
               ELSE [exc |-> "",
                     val |-> \E i \in DOMAIN results : results[i].val]

\* coerce_dtypes.dtype_lookup
dtype_lookup ==
    [object |-> "object", int |-> "Int64", float |-> "Float64",
     complex |-> "complex128", str |-> "string", bool |-> "boolean",
     datetime |-> "datetime64[ns]", timedelta |-> "timedelta64[ns]"]

\* A value that cannot be cast, with the exception of the cast.
Uncastable(exc) == [type |-> "error", exc |-> exc]

Digits == 0..9
IsNumeral(s) == \E n \in Digits : ToString(n) = s
ParseInt(s) == CHOOSE n \in Digits : ToString(n) = s

\* str(v) of a number, a bool or a string
Text(v) ==
    CASE IsInstance(v, {"str"}) -> v.s
      [] IsInstance(v, {"int"}) -> ToString(v.n)
      [] IsInstance(v, {"bool"}) -> IF v.b THEN "True" ELSE "False"
      [] IsInstance(v, {"float"}) ->
           IF v.den = 1 THEN ToString(v.num) \o ".0"
           ELSE ToString(v.num \div v.den) \o ".5"
      [] IsInstance(v, {"datetime"}) -> "1970-01-01 00:00:0" \o ToString(v.t)

\* The cast of one value of a column of storage type from to dtype.
CastValue(v, from, dtype) ==
    CASE dtype = "object" -> v
      [] dtype = "string" -> IF IsMissing(v) THEN NA ELSE Str(Text(v))
      [] dtype = "Int64" ->
           IF IsMissing(v) THEN NA
           ELSE IF IsInstance(v, {"int"}) THEN v
           ELSE IF IsInstance(v, {"bool"}) THEN PyInt(IF v.b THEN 1 ELSE 0)
           ELSE IF IsInstance(v, {"float"}) THEN
                    IF IsIntegral(v) THEN PyInt(v.num)
                    ELSE Uncastable("TypeError")
           ELSE IF IsInstance(v, {"str"}) /\ from = "string" THEN
                    IF IsNumeral(v.s) THEN PyInt(ParseInt(v.s))
                    ELSE Uncastable("ValueError")
           ELSE Uncastable("TypeError")
      [] dtype = "Float64" ->
           IF IsMissing(v) THEN NA
           ELSE IF IsInstance(v, {"int"}) THEN Float(v.n, 1)
           ELSE IF IsInstance(v, {"bool"}) THEN Float(IF v.b THEN 1 ELSE 0, 1)
           ELSE IF IsInstance(v, {"float"}) THEN v
           ELSE IF IsInstance(v, {"str"}) /\ from = "string" THEN
                    IF IsNumeral(v.s) THEN Float(ParseInt(v.s), 1)
                    ELSE Uncastable("ValueError")
           ELSE Uncastable("TypeError")
      [] dtype = "boolean" ->
           IF IsMissing(v) THEN NA
           ELSE IF IsInstance(v, {"bool"}) THEN v
           ELSE IF IsInstance(v, {"int"}) /\ v.n \in {0, 1} THEN Bool(v.n = 1)
           ELSE IF IsIntegral(v) /\ v.num \in {0, 1} THEN Bool(v.num = 1)
           ELSE Uncastable("TypeError")
      [] dtype = "datetime64[ns]" ->
           IF IsInstance(v, {"datetime"}) THEN v
           ELSE IF IsInstance(v, {"int"}) THEN Datetime(v.n, FALSE)
           ELSE IF IsInstance(v, {"str"}) /\ IsNumeral(v.s)
                THEN Datetime(ParseInt(v.s), FALSE)
           ELSE IF IsInstance(v, {"str"}) THEN Uncastable("ValueError")
           ELSE Uncastable("TypeError")
      [] OTHER -> Uncastable("TypeError")

\* column.astype(dtype): the cast column, or the exception of the first value
\* that cannot be cast.
astype(column, dtype) ==
    LET cast == [i \in DOMAIN column.values |->
                    CastValue(column.values[i], column.dtype, dtype)]
        failed == {i \in DOMAIN cast : IsInstance(cast[i], {"error"})}
    IN IF failed # {}
       THEN [exc |-> cast[CHOOSE i \in failed : \A j \in failed : i <= j].exc,
             column |-> column]
       ELSE [exc |-> "", column |-> Series(dtype, cast)]

\* An exception of coerce_dtypes: its class, and the data types its message
\* lists as available.
Raised(exc, listed, result) ==
    [exc |-> exc, listed |-> listed, result |-> result]

\* set(atomics) of lines 101-104: the names of the keys of dtype_lookup
atomics == AVAILABLE_DTYPES

\* The loop of coerce_dtypes over kwargs, a sequence of (col_name, typespec):
\* the check reads data, the cast reads and writes result.  A KeyError of
\* check_dtypes, raised outside the try statement, is the one of the failed
\* lookup dtype_lookup[typespec] or data[col_name].
RECURSIVE coerce_columns(_, _, _)
coerce_columns(data, result, kwargs) ==
    IF kwargs = <<>> THEN Raised("", {}, result)
    ELSE LET col_name == kwargs[1][1]
             typespec == kwargs[1][2]
         IN IF col_name \notin DOMAIN data.cols
            THEN Raised("KeyError", {}, result)
            ELSE LET checked == check_column(data.cols[col_name], typespec)
                 IN IF checked.exc # ""
                    THEN Raised(checked.exc, {}, result)
                    ELSE IF checked.val
                    THEN coerce_columns(data, result, Tail(kwargs))
                    ELSE IF ~IsInstance(typespec, {"type"})
                    THEN IF IsInstance(typespec, {"tuple"})
                         THEN Raised("KeyError", atomics, result)
                         ELSE Raised("TypeError", {}, result)
                    ELSE LET cast == astype(result.cols[col_name],
                                            dtype_lookup[typespec.name])
                         IN IF cast.exc # ""
                            THEN Raised(cast.exc, {}, result)
                            ELSE coerce_columns(
                                     data,
                                     Frame([result.cols EXCEPT
                                                ![col_name] = cast.column]),
                                     Tail(kwargs))

\* coerce_dtypes without result = data.copy(): the casts write to data.
coerce_dtypes_in_place(data, kwargs) ==
    IF kwargs = <<>>
    THEN [exc |-> "RuntimeError", listed |-> atomics, data |-> data,
          result |-> None]
    ELSE LET r == coerce_columns(data, data, kwargs)
         IN [exc |-> r.exc, listed |-> r.listed, data |-> r.result,
             result |-> IF r.exc = "" THEN r.result ELSE None]

\* coerce_dtypes(data, **kwargs): the exception raised if any, the dataset
\* passed as it is after the call, and the dataset returned.
coerce_dtypes(data, kwargs) ==
    IF kwargs = <<>>
    THEN [exc |-> "RuntimeError", listed |-> atomics, data |-> data,
          result |-> None]
    ELSE LET result == data
             r == coerce_columns(data, result, kwargs)
         IN [exc |-> r.exc, listed |-> r.listed, data |-> data,
             result |-> IF r.exc = "" THEN r.result ELSE None]

\* The values of the columns handed to coerce_dtypes, by storage type.
ColumnValues ==
    [object |-> {PyInt(1), Str("a")},
     int64 |-> {PyInt(0), PyInt(2)},
     float64 |-> {Float(1, 1), Float(3, 2), NaN},
     bool |-> {Bool(TRUE), Bool(FALSE)},
     string |-> {Str("1"), Str("a"), NA},
     Int64 |-> {PyInt(1), NA},
     Float64 |-> {Float(3, 2), NA},
     datetime64 |-> {Datetime(1, FALSE)},
     datetime64utc |-> {Datetime(1, TRUE)}]

ColumnDtype(k) ==
    CASE k = "datetime64" -> "datetime64[ns]"
      [] k = "datetime64utc" -> "datetime64[ns, UTC]"
      [] OTHER -> k

\* The columns of n rows
ColumnArgs(n) ==
    UNION {{Series(ColumnDtype(k), values) :
               values \in [1..n -> ColumnValues[k]]} : k \in DOMAIN ColumnValues}

\* The datasets: a column "a", and a column "b" of as many rows.
FrameArgs ==
    UNION {{Frame([a |-> a, b |-> b]) :
               a \in ColumnArgs(n),
               b \in {Series("int64", [i \in 1..n |-> PyInt(2)]),
                      Series("string", [i \in 1..n |-> Str("a")])}} :
           n \in 0..MaxColumnLen}

TypespecArgs ==
    {PyType(name) : name \in {"object", "int", "float", "str", "bool",
                              "datetime", "numeric"}}
        \cup {Tuple(<<PyType("int"), PyType("float")>>),
              List(<<PyType("str")>>)}

\* The keyword arguments of coerce_dtypes, in their order.
KwargsArgs ==
    {<<>>, <<<<"c", PyType("int")>>>>}
        \cup {<<<<"a", ts>>>> : ts \in TypespecArgs}
        \cup {<<<<"a", ts>>, <<"b", tb>>>> :
                 ts \in TypespecArgs,
                 tb \in {PyType("int"), PyType("str"), PyType("numeric")}}

\* result = coerce_dtypes(data, **kwargs)
CoerceDtypes(data, kwargs) ==
    /\ frame = NoFrame
    /\ Running
    /\ LET r == coerce_dtypes(data, kwargs)
       IN /\ frame' = [given |-> data, kwargs |-> kwargs, exc |-> r.exc,
                       listed |-> r.listed, data |-> r.data,
                       result |-> r.result, again |-> NoFrame]
          /\ last' = Call("coerce_dtypes", "DataFrame", "", None, r.exc)
          /\ calls' = Counted(r.exc)
    /\ UNCHANGED <<now, video, chans, htmls, stats, files>>

\* coerce_dtypes(result, **kwargs), of the result of the call before and
\* with its keyword arguments
CoerceAgain ==
    /\ frame # NoFrame
    /\ frame.again = NoFrame
    /\ Running
    /\ LET r == coerce_dtypes(frame.result, frame.kwargs)
       IN /\ frame' = [frame EXCEPT !.again = r]
          /\ last' = Call("coerce_dtypes", "DataFrame", "", None, r.exc)
          /\ calls' = Counted(r.exc)
    /\ UNCHANGED <<now, video, chans, htmls, stats, files>>

InitCoerce == InitInfo

NextCoerce ==
    \/ \E data \in FrameArgs, kwargs \in KwargsArgs : CoerceDtypes(data, kwargs)
    \/ CoerceAgain

SpecCoerce == InitCoerce /\ [][NextCoerce]_vars

\* Python's a == b for the values of the model, in the heap given: values of
\* different types differ (a list never equals a tuple), an HtmlDict is
\* compared with a dict or with an HtmlDict by PropertyDict.__eq__.
RECURSIVE PyEq(_, _, _)

\* PropertyDict.__eq__(self, other) for a record with the given keys and
\* slots; other is the mapping of a dict, or the slots of another record.
\* The immutable flag is no key, and is not compared.
PropertyDict_eq(keys, slots, other, heap) ==
    IF Len(keys) # Cardinality(DOMAIN other) THEN FALSE
    ELSE \A i \in DOMAIN keys :
            /\ keys[i] \in DOMAIN other
            /\ PyEq(slots[keys[i]], other[keys[i]], heap)

PyEq(a, b, heap) ==
    IF IsInstance(a, {"HtmlDict"}) /\ IsInstance(b, {"dict"})
    THEN PropertyDict_eq(HtmlDict_keys, heap[a.ref].slots, b.d, heap)
    ELSE IF IsInstance(a, {"HtmlDict"}) /\ IsInstance(b, {"HtmlDict"})
    THEN PropertyDict_eq(HtmlDict_keys, heap[a.ref].slots, heap[b.ref].slots,
                         heap)
    ELSE a = b

\* ------------------------------------------------------- to_json, from_json

Path(p) == [type |-> "Path", p |-> p]

EndsWith(s, suffix) ==
    /\ Len(s) >= Len(suffix)
    /\ SubSeq(s, Len(s) - Len(suffix) + 1, Len(s)) = suffix

\* datetime.isoformat() without the offset of the timezone
isoformat_naive(d) == ToString(d.t)

\* datetime.isoformat(): the instant, then the offset of an aware datetime.
isoformat(d) == ToString(d.t) \o (IF d.tz THEN "+00:00" ELSE "")

\* datetime.fromisoformat(s): ValueError for a text that is no date.
fromisoformat(s) ==
    LET aware == EndsWith(s, "+00:00")
        instant == IF aware THEN SubSeq(s, 1, Len(s) - Len("+00:00")) ELSE s
    IN IF IsNumeral(instant)
       THEN [exc |-> "", val |-> Datetime(ParseInt(instant), aware)]
       ELSE [exc |-> "ValueError", val |-> None]

\* The values of a JSON document.
JString(s) == [json |-> "string", s |-> s]
JObject(members) == [json |-> "object", members |-> members]
JNull == [json |-> "null"]
JUnserializable == [json |-> "error"]

\* json.dump(v, json_file): the document written
RECURSIVE json_dump(_)
json_dump(v) ==
    CASE IsInstance(v, {"str"}) -> JString(v.s)
      [] IsInstance(v, {"NoneType"}) -> JNull
      [] IsInstance(v, {"dict"}) ->
           LET members == [k \in DOMAIN v.d |-> json_dump(v.d[k])]
           IN IF \E k \in DOMAIN members : members[k] = JUnserializable
              THEN JUnserializable ELSE JObject(members)
      [] OTHER -> JUnserializable

\* json.load(json_file)
RECURSIVE json_load(_)
json_load(doc) ==
    CASE doc.json = "string" -> Str(doc.s)
      [] doc.json = "null" -> None
      [] doc.json = "object" ->
           Dict([k \in DOMAIN doc.members |-> json_load(doc.members[k])])

File(doc) == [class |-> "file", doc |-> doc]

\* ChannelInfo.to_json(save_to) with the files fs: the exception, the
\* dictionary returned and the files afterwards.
ChannelInfo_to_json(self, save_to, heap, fs) ==
    LET html == heap[self.slots["html"].ref].slots
        json_dict ==
            Dict([channel_id |-> self.slots["channel_id"],
                  channel_name |-> self.slots["channel_name"],
                  last_updated |-> Str(isoformat(self.slots["last_updated"])),
                  html |-> Dict([about |-> html["about"],
                                 community |-> html["community"],
                                 featured_channels |->
                                     html["featured_channels"],
                                 videos |-> html["videos"]])])
    IN IF save_to = None
       THEN [exc |-> "", val |-> json_dict, files |-> fs]
       ELSE IF ~IsInstance(save_to, {"Path"})
       THEN [exc |-> "TypeError", val |-> None, files |-> fs]
       ELSE IF ~EndsWith(save_to.p, ".json")
       THEN [exc |-> "ValueError", val |-> None, files |-> fs]
       ELSE [exc |-> "", val |-> json_dict,
             files |-> [fs EXCEPT ![save_to.p] = File(json_dump(json_dict))]]

\* ChannelInfo.from_json(json_path, immutable) with the files fs
ChannelInfo_from_json(json_path, immutable, current_time, heap, fs) ==
    IF ~IsInstance(json_path, {"Path"})
    THEN RaiseH("TypeError", NoObject, heap)
    ELSE IF fs[json_path.p] = NoFile
    THEN RaiseH("ValueError", NoObject, heap)
    ELSE IF ~EndsWith(json_path.p, ".json")
    THEN RaiseH("ValueError", NoObject, heap)
    ELSE LET saved == json_load(fs[json_path.p].doc).d
             last_updated == fromisoformat(saved["last_updated"].s)
         IN IF last_updated.exc # ""
            THEN RaiseH(last_updated.exc, NoObject, heap)
            ELSE ChannelInfo_init(
                     [channel_id |-> saved["channel_id"],
                      channel_name |-> saved["channel_name"],
                      last_updated |-> last_updated.val,
                      about_html |-> saved["html"].d["about"],
                      community_html |-> saved["html"].d["community"],
                      featured_channels_html |->
                          saved["html"].d["featured_channels"],
                      videos_html |-> saved["html"].d["videos"]],
                     immutable, current_time, heap)

PathArgs == {Path(p) : p \in PathNames} \cup {Str("saved/channel.json")}

\* chans[c].to_json(save_to): it reads the record, and calls does not count it
ChannelToJson(c, save_to) ==
    /\ chans[c] # NoObject
    /\ Running
    /\ LET r == ChannelInfo_to_json(chans[c], save_to, htmls, files)
       IN /\ files' = r.files
          /\ last' = Call("to_json", "ChannelInfo", "", save_to, r.exc)
    /\ UNCHANGED <<now, video, chans, htmls, stats, frame, calls>>

\* chans[c] = ChannelInfo.from_json(json_path, immutable)
ChannelFromJson(c, json_path, immutable) ==
    /\ video = NoObject
    /\ chans[c] = NoObject
    /\ \A b \in DOMAIN chans : b < c => chans[b] # NoObject
    /\ FreeHtml(htmls) # {}
    /\ Running
    /\ LET r == ChannelInfo_from_json(json_path, immutable, now, htmls, files)
       IN /\ chans' = [chans EXCEPT ![c] = r.self]
          /\ htmls' = r.heap
          /\ last' = Call("from_json", "ChannelInfo", "", json_path, r.exc)
          /\ calls' = Counted(r.exc)
    /\ UNCHANGED <<now, video, stats, frame, files>>

\* The valid constructor arguments: each argument with a second value.
JsonInitArgs ==
    {ChannelInfo_valid_args,
     [ChannelInfo_valid_args EXCEPT
          !["channel_id"] = Str("UCbbbbbbbbbbbbbbbbbbbbbb")],
     [ChannelInfo_valid_args EXCEPT !["channel_name"] = Str("other")],
     [ChannelInfo_valid_args EXCEPT !["last_updated"] = Datetime(0, TRUE)],
     [ChannelInfo_valid_args EXCEPT !["about_html"] = Str("<p>")],
     [ChannelInfo_valid_args EXCEPT !["videos_html"] = Str("<p>")]}

\* The assignments made to a ChannelInfo between its construction, its
\* writing and its loading.
JsonSetArgs ==
    [channel_name |-> {Str("other")},
     last_updated |-> {Datetime(0, TRUE)},
     html |-> {Dict([about |-> Str("<p>"), community |-> Str(""),
                     featured_channels |-> Str(""), videos |-> Str("")])}]

\* The file system holds a text file that no to_json has written.
InitJson ==
    /\ now = 1
    /\ video = NoObject
    /\ chans = [c \in 1..MaxChan |-> NoObject]
    /\ htmls = [h \in 1..MaxHtml |-> NoObject]
    /\ stats = NoStats
    /\ frame = NoFrame
    /\ files = [NoFiles EXCEPT !["channel.txt"] = File(JString("notes"))]
    /\ last = Call("", "", "", None, "")
    /\ calls = 0

NextJson ==
    \/ Tick
    \/ /\ calls < MaxJsonCalls
       /\ \E c \in 1..MaxChan, args \in JsonInitArgs,
             immutable \in BOOLEAN : NewChannelInfo(c, args, Bool(immutable))
    \/ /\ calls < MaxJsonCalls
       /\ \E c \in 1..MaxChan, key \in DOMAIN JsonSetArgs :
             \E val \in JsonSetArgs[key] : ChannelSetAttr(c, key, val)
    \/ \E c \in 1..MaxChan, save_to \in PathArgs \cup {None} :
          ChannelToJson(c, save_to)
    \/ /\ calls < MaxJsonCalls
       /\ \E c \in 1..MaxChan, json_path \in PathArgs,
             immutable \in ImmutableArgs :
                 ChannelFromJson(c, json_path, immutable)

SpecJson == InitJson /\ [][NextJson]_vars

\* ------------------------------------------------------------------- hash

\* hash(v) returns for a value of the model: a list, a set and a dict are
\* unhashable, a tuple is hashed through its elements, an HtmlDict through
\* PropertyDict.__hash__, which raises for a mutable record.
Hashable(v, heap) ==
    CASE IsInstance(v, {"list", "set", "dict"}) -> FALSE
      [] IsInstance(v, {"tuple"}) ->
           \A i \in DOMAIN v.elems :
               ~IsInstance(v.elems[i], {"list", "set", "dict"})
      [] IsInstance(v, {"HtmlDict"}) -> heap[v.ref].immutable
      [] OTHER -> TRUE

\* PropertyDict.__hash__(self) for a record with the given keys: the hash is
\* that of the tuple of its items, which the items stand for here.
PropertyDict_hash(keys, self, heap) ==
    IF ~self.immutable
    THEN [exc |-> "TypeError", val |-> None]
    ELSE IF \E i \in DOMAIN keys : ~Hashable(self.slots[keys[i]], heap)
    THEN [exc |-> "TypeError", val |-> None]
    ELSE [exc |-> "",
          val |-> Tuple([i \in DOMAIN keys |->
                            Tuple(<<Str(keys[i]), self.slots[keys[i]]>>)])]

\* hash(video)
VideoHash ==
    /\ video # NoObject
    /\ Running
    /\ last' = Call("hash", "VideoInfo", "", None,
                    PropertyDict_hash(VideoInfo_keys, video, htmls).exc)
    /\ UNCHANGED <<now, video, chans, htmls, stats, frame, files, calls>>

\* hash(chans[c])
ChannelHash(c) ==
    /\ chans[c] # NoObject
    /\ Running
    /\ last' = Call("hash", "ChannelInfo", "", PyInt(c),
                    PropertyDict_hash(ChannelInfo_keys, chans[c], htmls).exc)
    /\ UNCHANGED <<now, video, chans, htmls, stats, frame, files, calls>>

\* hash(htmls[h])
HtmlHash(h) ==
    /\ htmls[h] # NoObject
    /\ Running
    /\ last' = Call("hash", "HtmlDict", "", PyInt(h),
                    PropertyDict_hash(HtmlDict_keys, htmls[h], htmls).exc)
    /\ UNCHANGED <<now, video, chans, htmls, stats, frame, files, calls>>

\* Records built from valid arguments, HtmlDict objects assigned to the html
\* of several ChannelInfo, and hashes.
AliasHtmlArgs ==
    {[about |-> ab, community |-> Str(""), featured_channels |-> Str(""),
      videos |-> Str("")] : ab \in {Str(""), Str("<p>")}}

AliasSetArgs(heap) ==
    [channel_name |-> {Str("other")},
     html |-> {HtmlRef(h) : h \in Allocated(heap)}
                 \cup {Dict(d) : d \in AliasHtmlArgs}]

NextAlias ==
    \/ /\ calls < MaxAliasCalls
       /\ \E immutable \in BOOLEAN :
             NewVideoInfo(VideoInfo_valid_args, Bool(immutable))
    \/ /\ calls < MaxAliasCalls
       /\ \E key \in {"keywords", "description"} :
             \E val \in VideoInfo_args(key) : VideoSetAttr(key, val)
    \/ /\ calls < MaxAliasCalls
       /\ \E c \in 1..MaxChan, immutable \in BOOLEAN :
             NewChannelInfo(c, ChannelInfo_valid_args, Bool(immutable))
    \/ /\ calls < MaxAliasCalls
       /\ \E c \in 1..MaxChan, key \in DOMAIN AliasSetArgs(htmls) :
             \E val \in AliasSetArgs(htmls)[key] : ChannelSetAttr(c, key, val)
    \/ /\ calls < MaxAliasCalls
       /\ \E args \in AliasHtmlArgs, immutable \in BOOLEAN :
             NewHtmlDict(args, Bool(immutable))
    \/ /\ calls < MaxAliasCalls
       /\ \E h \in 1..MaxHtml, val \in {Str("<p>"), Str("<a>")} :
             HtmlSetAttr(h, "about", val)
    \/ VideoHash
    \/ \E c \in 1..MaxChan : ChannelHash(c)
    \/ \E h \in 1..MaxHtml : HtmlHash(h)

SpecAlias == InitInfo /\ [][NextAlias]_vars

\* ------------------------------------------------------------ record[key]

\* PropertyDict.__getitem__ on a record with the given keys
PropertyDict_getitem(keys, self, key) ==
    IF ~IsInstance(key, {"str"})
    THEN [exc |-> "TypeError", val |-> None]
    ELSE IF key.s \notin Range(keys)
    THEN [exc |-> "KeyError", val |-> None]
    ELSE [exc |-> "", val |-> self.slots[key.s]]

KeyText(key) == IF IsInstance(key, {"str"}) THEN key.s ELSE ""

\* video[key]
VideoGetItem(key) ==
    /\ video # NoObject
    /\ Running
    /\ LET r == VideoInfo_getitem(video, key)
       IN last' = Call("getitem", "VideoInfo", KeyText(key), r.val, r.exc)
    /\ UNCHANGED <<now, video, chans, htmls, stats, frame, files, calls>>

\* chans[c][key]
ChannelGetItem(c, key) ==
    /\ chans[c] # NoObject
    /\ Running
    /\ LET r == PropertyDict_getitem(ChannelInfo_keys, chans[c], key)
       IN last' = Call("getitem", "ChannelInfo", KeyText(key), r.val, r.exc)
    /\ UNCHANGED <<now, video, chans, htmls, stats, frame, files, calls>>

\* htmls[h][key]
HtmlGetItem(h, key) ==
    /\ htmls[h] # NoObject
    /\ Running
    /\ LET r == PropertyDict_getitem(HtmlDict_keys, htmls[h], key)
       IN last' = Call("getitem", "HtmlDict", KeyText(key), r.val, r.exc)
    /\ UNCHANGED <<now, video, chans, htmls, stats, frame, files, calls>>

\* Records built from valid arguments, then read and written by key.
NextItem ==
    \/ /\ calls < MaxItemCalls
       /\ \E immutable \in BOOLEAN :
             NewVideoInfo(VideoInfo_valid_args, Bool(immutable))
    \/ /\ calls < MaxItemCalls
       /\ \E c \in 1..MaxChan, immutable \in BOOLEAN :
             NewChannelInfo(c, ChannelInfo_valid_args, Bool(immutable))
    \/ /\ calls < MaxItemCalls
       /\ \E args \in AliasHtmlArgs, immutable \in BOOLEAN :
             NewHtmlDict(args, Bool(immutable))
    \/ /\ calls < MaxItemCalls
       /\ \E key \in KeyArgs(VideoInfo_keys) :
             \E val \in ItemArgs_VideoInfo(key) : VideoSetItem(key, val)
    \/ /\ calls < MaxItemCalls
       /\ \E c \in 1..MaxChan, key \in KeyArgs(ChannelInfo_keys) :
             \E val \in ItemArgs_ChannelInfo(key, htmls) :
                 ChannelSetItem(c, key, val)
    \/ /\ calls < MaxItemCalls
       /\ \E h \in 1..MaxHtml, key \in KeyArgs(HtmlDict_keys) :
             \E val \in HtmlTextArgs : HtmlSetItem(h, key, val)
    \/ \E key \in KeyArgs(VideoInfo_keys) : VideoGetItem(key)
    \/ \E c \in 1..MaxChan, key \in KeyArgs(ChannelInfo_keys) :
          ChannelGetItem(c, key)
    \/ \E h \in 1..MaxHtml, key \in KeyArgs(HtmlDict_keys) :
          HtmlGetItem(h, key)

SpecItem == InitInfo /\ [][NextItem]_vars

\* ------------------------------------------------------------------ dates

\* Constructor arguments that are valid but for the dates.
VideoDateArgs ==
    {[VideoInfo_valid_args EXCEPT !["publish_date"] = pd,
                                  !["last_updated"] = lu] :
        pd \in DateArgs, lu \in DateArgs}

ChannelDateArgs ==
    {[ChannelInfo_valid_args EXCEPT !["last_updated"] = lu] : lu \in DateArgs}

\* Records and their dates, under a clock that advances.
NextDates ==
    \/ Tick
    \/ /\ calls < MaxDateCalls
       /\ \E args \in VideoDateArgs, immutable \in BOOLEAN :
             NewVideoInfo(args, Bool(immutable))
    \/ /\ calls < MaxDateCalls
       /\ \E key \in {"publish_date", "last_updated"}, val \in DateArgs :
             VideoSetAttr(key, val)
    \/ /\ calls < MaxDateCalls
       /\ \E c \in 1..MaxChan, args \in ChannelDateArgs,
             immutable \in BOOLEAN : NewChannelInfo(c, args, Bool(immutable))
    \/ /\ calls < MaxDateCalls
       /\ \E c \in 1..MaxChan, val \in DateArgs :
             ChannelSetAttr(c, "last_updated", val)

SpecDates == InitInfo /\ [][NextDates]_vars

\* ---------------------------------------------------------------- setters

\* Keyword collections with an empty keyword and a keyword that is no
\* string, in both orders; a set is iterated in either order.
MixedKeywordArgs ==
    {List(<<Str(""), PyInt(1)>>), List(<<PyInt(1), Str("")>>),
     PySet(<<Str(""), PyInt(1)>>), PySet(<<PyInt(1), Str("")>>)}

SetterArgs(key) ==
    IF key = "keywords" THEN KeywordArgs \cup MixedKeywordArgs
    ELSE VideoInfo_args(key)

\* Records built from valid arguments, and one assignment to a property.
NextSetters ==
    \/ /\ calls < MaxSetterCalls
       /\ \E immutable \in BOOLEAN :
             NewVideoInfo(VideoInfo_valid_args, Bool(immutable))
    \/ /\ calls < MaxSetterCalls
       /\ \E c \in 1..MaxChan, immutable \in BOOLEAN :
             NewChannelInfo(c, ChannelInfo_valid_args, Bool(immutable))
    \/ /\ calls < MaxSetterCalls
       /\ \E args \in AliasHtmlArgs, immutable \in BOOLEAN :
             NewHtmlDict(args, Bool(immutable))
    \/ /\ calls < MaxSetterCalls
       /\ \E key \in Range(VideoInfo_keys) : \E val \in SetterArgs(key) :
             VideoSetAttr(key, val)
    \/ /\ calls < MaxSetterCalls
       /\ \E c \in 1..MaxChan, key \in Range(ChannelInfo_keys) :
             \E val \in ChannelInfo_args(key, htmls) :
                 ChannelSetAttr(c, key, val)
    \/ /\ calls < MaxSetterCalls
       /\ \E h \in 1..MaxHtml, key \in Range(HtmlDict_keys) :
             \E val \in HtmlTextArgs : HtmlSetAttr(h, key, val)

SpecSetters == InitInfo /\ [][NextSetters]_vars

\* ------------------------------------------- keys, values, items, iteration

\* Records constructed and assigned to before they are enumerated.
MaxKeyCalls == 2

\* An attribute of a class body: its name and what it is bound to.
Attr(name, kind) == [name |-> name, kind |-> kind]

\* The public attributes of each class in the order of its body: methods,
\* properties and nested classes.  The slots and the special methods, whose
\* names start with an underscore, are bound to no property.
ClassBody(cls) ==
    CASE cls = "PropertyDict" ->
           <<Attr("immutable", "property"), Attr("items", "function"),
             Attr("keys", "function"), Attr("values", "function")>>
      [] cls = "ChannelInfo" ->
           <<Attr("from_json", "classmethod"),
             Attr("channel_id", "property"), Attr("channel_name", "property"),
             Attr("html", "property"), Attr("last_updated", "property"),
             Attr("to_json", "function"), Attr("HtmlDict", "type")>>
      [] cls = "HtmlDict" ->
           <<Attr("about", "property"), Attr("community", "property"),
             Attr("featured_channels", "property"),
             Attr("videos", "property")>>
      [] cls = "VideoInfo" ->
           <<Attr("from_json", "classmethod"),
             Attr("channel_id", "property"), Attr("channel_name", "property"),
             Attr("description", "property"), Attr("duration", "property"),
             Attr("keywords", "property"), Attr("last_updated", "property"),
             Attr("publish_date", "property"),
             Attr("thumbnail_url", "property"), Attr("video_id", "property"),
             Attr("video_title", "property"), Attr("to_json", "function")>>

\* The class and its base, as attribute lookup goes through them.
mro(cls) == IF cls = "PropertyDict" THEN <<cls>> ELSE <<cls, "PropertyDict">>

\* The characters of attribute names, in the order of their code points.
CodePoints == "ABCDEFGHIJKLMNOPQRSTUVWXYZ_abcdefghijklmnopqrstuvwxyz"
ord(c) == CHOOSE i \in 1..Len(CodePoints) : SubSeq(CodePoints, i, i) = c

\* The length of the longest common prefix of two strings.
RECURSIVE common(_, _, _)
common(a, b, n) ==
    IF n < Len(a) /\ n < Len(b) /\ SubSeq(a, n + 1, n + 1) = SubSeq(b, n + 1, n + 1)
    THEN common(a, b, n + 1)
    ELSE n

\* b < a for two strings
str_gt(a, b) ==
    LET n == common(a, b, 0)
    IN IF n = Len(a) THEN FALSE
       ELSE IF n = Len(b) THEN TRUE
       ELSE ord(SubSeq(a, n + 1, n + 1)) > ord(SubSeq(b, n + 1, n + 1))

\* a < b for two strings: the first character that differs decides, a
\* proper prefix comes first.
str_lt(a, b) ==
    LET n == common(a, b, 0)
    IN IF n = Len(b) THEN FALSE
       ELSE IF n = Len(a) THEN TRUE
       ELSE ord(SubSeq(a, n + 1, n + 1)) < ord(SubSeq(b, n + 1, n + 1))

\* Each name of the set with its rank: the number of names that are not
\* after it.
ranks(names) ==
    {<<a, Cardinality({b \in names : ~str_lt(a, b)})>> : a \in names}

\* The names in the order of their ranks.
by_rank(ranked) ==
    [i \in 1..Cardinality(ranked) |-> (CHOOSE p \in ranked : p[2] = i)[1]]

\* sorted(names), of a set of strings
sorted(names) ==
    CHOOSE seq \in {by_rank(ranked) : ranked \in {ranks(names)}} : TRUE

\* dir(cls): the names of the attributes of the class and of its bases, in
\* alphabetical order
dir(cls) ==
    sorted(UNION {{ClassBody(mro(cls)[k])[i].name :
                      i \in DOMAIN ClassBody(mro(cls)[k])} :
                  k \in DOMAIN mro(cls)})

\* getattr(cls, a): what the first class of the mro that has a binds it to
getattr(cls, a) ==
    LET has(k) == \E i \in DOMAIN ClassBody(mro(cls)[k]) :
                      ClassBody(mro(cls)[k])[i].name = a
        first == CHOOSE k \in DOMAIN mro(cls) :
                     has(k) /\ \A j \in 1..(k - 1) : ~has(j)
        body == ClassBody(mro(cls)[first])
    IN body[CHOOSE i \in DOMAIN body : body[i].name = a].kind

\* is_property of PropertyDict.keys
is_property(cls, a) == getattr(cls, a) = "property"

\* list(self.keys()) of an instance of the class
PropertyDict_keys(cls) ==
    SelectSeq(dir(cls), LAMBDA a : is_property(cls, a) /\ a # "immutable")

\* list(self.values()), keys being list(self.keys()): getattr(self, attr) for
\* each key, the getter of a property returning the slot of its name
PropertyDict_values(keys, self) ==
    IF \E i \in DOMAIN keys : ~HasAttr(self, keys[i])
    THEN [exc |-> "AttributeError", val |-> None]
    ELSE [exc |-> "",
          val |-> List([i \in DOMAIN keys |-> self.slots[keys[i]]])]

\* list(self.items()): zip(self.keys(), self.values())
PropertyDict_items(keys, self) ==
    IF PropertyDict_values(keys, self).exc # ""
    THEN PropertyDict_values(keys, self)
    ELSE [exc |-> "",
          val |-> List([i \in DOMAIN keys |->
                           Tuple(<<Str(keys[i]), self.slots[keys[i]]>>)])]

\* list(iter(self)): yield from self.keys()
PropertyDict_iter(keys) == keys

Views == {"keys", "values", "items", "iter"}

\* list(self.keys()), list(self.values()), list(self.items()) or list(self),
\* keys being list(self.keys())
PropertyDict_view(view, keys, self) ==
    CASE view = "keys" ->
           [exc |-> "", val |-> List([i \in DOMAIN keys |-> Str(keys[i])])]
      [] view = "values" -> PropertyDict_values(keys, self)
      [] view = "items" -> PropertyDict_items(keys, self)
      [] view = "iter" ->
           [exc |-> "",
            val |-> List([i \in DOMAIN keys |->
                             Str(PropertyDict_iter(keys)[i])])]

\* list(video.keys()), ...: reads, which calls does not count
VideoView(view) ==
    /\ video # NoObject
    /\ Running
    /\ \E keys \in {PropertyDict_keys("VideoInfo")} :
          last' = Call(view, "VideoInfo", "",
                       PropertyDict_view(view, keys, video).val,
                       PropertyDict_view(view, keys, video).exc)
    /\ UNCHANGED <<now, video, chans, htmls, stats, frame, files, calls>>

\* list(chans[c].keys()), ...
ChannelView(c, view) ==
    /\ chans[c] # NoObject
    /\ Running
    /\ \E keys \in {PropertyDict_keys("ChannelInfo")} :
          last' = Call(view, "ChannelInfo", "",
                       PropertyDict_view(view, keys, chans[c]).val,
                       PropertyDict_view(view, keys, chans[c]).exc)
                  @@ [obj |-> c]
    /\ UNCHANGED <<now, video, chans, htmls, stats, frame, files, calls>>

\* list(htmls[h].keys()), ...
HtmlView(h, view) ==
    /\ htmls[h] # NoObject
    /\ Running
    /\ \E keys \in {PropertyDict_keys("HtmlDict")} :
          last' = Call(view, "HtmlDict", "",
                       PropertyDict_view(view, keys, htmls[h]).val,
                       PropertyDict_view(view, keys, htmls[h]).exc)
                  @@ [obj |-> h]
    /\ UNCHANGED <<now, video, chans, htmls, stats, frame, files, calls>>

\* Records built from valid arguments and assigned to, then enumerated.
NextKeys ==
    \/ /\ calls < MaxKeyCalls
       /\ \E immutable \in BOOLEAN :
             NewVideoInfo(VideoInfo_valid_args, Bool(immutable))
    \/ /\ calls < MaxKeyCalls
       /\ \E c \in 1..MaxChan, immutable \in BOOLEAN :
             NewChannelInfo(c, ChannelInfo_valid_args, Bool(immutable))
    \/ /\ calls < MaxKeyCalls
       /\ \E args \in AliasHtmlArgs, immutable \in BOOLEAN :
             NewHtmlDict(args, Bool(immutable))
    \/ /\ calls < MaxKeyCalls
       /\ \E key \in Range(VideoInfo_keys) :
             \E val \in VideoInfo_args(key) : VideoSetAttr(key, val)
    \/ /\ calls < MaxKeyCalls
       /\ \E c \in 1..MaxChan, key \in Range(ChannelInfo_keys) :
             \E val \in ChannelInfo_args(key, htmls) :
                 ChannelSetAttr(c, key, val)
    \/ /\ calls < MaxKeyCalls
       /\ \E h \in 1..MaxHtml, key \in Range(HtmlDict_keys) :
             \E val \in HtmlTextArgs : HtmlSetAttr(h, key, val)
    \/ \E view \in Views : VideoView(view)
    \/ \E c \in 1..MaxChan, view \in Views : ChannelView(c, view)
    \/ \E h \in 1..MaxHtml, view \in Views : HtmlView(h, view)

SpecKeys == InitInfo /\ [][NextKeys]_vars

\* ------------------------------------------------- records that share html

\* Calls that return, on ChannelInfo and HtmlDict objects.
MaxDeepCalls == 4

\* ChannelInfo and HtmlDict objects constructed, an HtmlDict or a mapping
\* assigned to the html of a ChannelInfo, the fields of HtmlDict objects
\* assigned to by attribute and by key.
NextDeep ==
    \/ /\ calls < MaxDeepCalls
       /\ \E c \in 1..MaxChan, immutable \in BOOLEAN :
             NewChannelInfo(c, ChannelInfo_valid_args, Bool(immutable))
    \/ /\ calls < MaxDeepCalls
       /\ \E c \in 1..MaxChan, key \in DOMAIN AliasSetArgs(htmls) :
             \E val \in AliasSetArgs(htmls)[key] : ChannelSetAttr(c, key, val)
    \/ /\ calls < MaxDeepCalls
       /\ \E args \in AliasHtmlArgs, immutable \in BOOLEAN :
             NewHtmlDict(args, Bool(immutable))
    \/ /\ calls < MaxDeepCalls
       /\ \E h \in 1..MaxHtml, key \in Range(HtmlDict_keys) :
             HtmlSetAttr(h, key, Str("<p>"))
    \/ /\ calls < MaxDeepCalls
       /\ \E h \in 1..MaxHtml : HtmlSetItem(h, Str("videos"), Str("<a>"))

SpecDeep == InitInfo /\ [][NextDeep]_vars

\* ------------------------------------------------------- record == record

\* Records constructed before they are compared.
MaxEqCalls == 2

\* Valid constructor arguments of a VideoInfo: the keywords as a list, as a
\* tuple and empty, and a second description.
EqVideoArgs ==
    {VideoInfo_valid_args,
     [VideoInfo_valid_args EXCEPT !["keywords"] = Tuple(<<Str("k")>>)],
     [VideoInfo_valid_args EXCEPT !["keywords"] = List(<<>>)],
     [VideoInfo_valid_args EXCEPT
          !["keywords"] = List(<<Str("k"), Str("l")>>)],
     [VideoInfo_valid_args EXCEPT !["description"] = Str("")],
     [VideoInfo_valid_args EXCEPT !["video_title"] = Str("other")]}

\* video == VideoInfo(**args, immutable=immutable) and the same with the
\* operands exchanged: a read, which calls does not count.  last holds the
\* second operand and both results.
VideoEq(args, immutable) ==
    /\ video # NoObject
    /\ Running
    /\ LET made == VideoInfo_init(args, immutable, now)
       IN /\ made.exc = ""
          /\ last' = Call("eq", "VideoInfo", "",
                          Bool(PropertyDict_eq(VideoInfo_keys, video.slots,
                                               made.self.slots, htmls)), "")
                     @@ [args |-> args, other |-> made.self,
                         reversed |->
                             Bool(PropertyDict_eq(VideoInfo_keys,
                                                  made.self.slots,
                                                  video.slots, htmls))]
    /\ UNCHANGED <<now, video, chans, htmls, stats, frame, files, calls>>

\* chans[c] == ChannelInfo(**args, immutable=immutable) and the same with the
\* operands exchanged; the second operand and its HtmlDict are dropped after
\* the comparison.
ChannelEq(c, args, immutable) ==
    /\ chans[c] # NoObject
    /\ FreeHtml(htmls) # {}
    /\ Running
    /\ LET made == ChannelInfo_init(args, immutable, now, htmls)
       IN /\ made.exc = ""
          /\ last' = Call("eq", "ChannelInfo", "",
                          Bool(PropertyDict_eq(ChannelInfo_keys,
                                               chans[c].slots,
                                               made.self.slots, made.heap)),
                          "")
                     @@ [args |-> args, other |-> made.self, obj |-> c,
                         reversed |->
                             Bool(PropertyDict_eq(ChannelInfo_keys,
                                                  made.self.slots,
                                                  chans[c].slots, made.heap))]
    /\ UNCHANGED <<now, video, chans, htmls, stats, frame, files, calls>>

\* Records constructed from valid arguments, then compared with records
\* constructed from the same and from other arguments.
NextEq ==
    \/ /\ calls < MaxEqCalls
       /\ \E args \in EqVideoArgs, immutable \in BOOLEAN :
             NewVideoInfo(args, Bool(immutable))
    \/ /\ calls < MaxEqCalls
       /\ \E c \in 1..MaxChan, args \in JsonInitArgs, immutable \in BOOLEAN :
             NewChannelInfo(c, args, Bool(immutable))
    \/ \E args \in EqVideoArgs, immutable \in BOOLEAN :
          VideoEq(args, Bool(immutable))
    \/ \E c \in 1..MaxChan, args \in JsonInitArgs, immutable \in BOOLEAN :
          ChannelEq(c, args, Bool(immutable))

SpecEq == InitInfo /\ [][NextEq]_vars

\* =================================================================== C1, C2

DateKeys == {"publish_date", "last_updated"}

Constructed == video # NoObject

\* The assignment of val to the date property key of the VideoInfo, by
\* attribute or by key.
VideoAssign(key, val) == VideoSetAttr(key, val) \/ VideoSetItem(Str(key), val)

\* A timezone-aware date that would leave publish_date > last_updated.
BreaksOrder(key, val) ==
    /\ IsInstance(val, {"datetime"})
    /\ val.tz
    /\ \/ key = "publish_date" /\ val.t > video.slots["last_updated"].t
       \/ key = "last_updated" /\ val.t < video.slots["publish_date"].t

C1_Ordered ==
    Constructed =>
        video.slots["publish_date"].t <= video.slots["last_updated"].t

\* C1 as claimed: publish_date <= last_updated after construction and after
\* every assignment, and an assignment that would break the ordering raises
\* ValueError and changes nothing.
C1_AsClaimed ==
    [][/\ C1_Ordered'
       /\ \A key \in DateKeys : \A val \in DateArgs :
             (Constructed /\ BreaksOrder(key, val) /\ VideoAssign(key, val))
                 => last'.exc = "ValueError" /\ video' = video]_vars

\* C1 (amended): publish_date <= last_updated holds of every VideoInfo after
\* construction and after every assignment to publish_date or last_updated,
\* in any order; an assignment that would break the ordering changes nothing
\* and raises ValueError on a mutable record, and the immutability error
\* (AttributeError) on an immutable one.
C1_OrderKept ==
    [][/\ C1_Ordered'
       /\ \A key \in DateKeys : \A val \in DateArgs :
             (Constructed /\ BreaksOrder(key, val) /\ VideoAssign(key, val))
                 => /\ last'.exc = IF video.immutable THEN "AttributeError"
                                   ELSE "ValueError"
                    /\ video' = video]_vars

\* A mutable VideoInfo whose publish_date was assigned, after an earlier
\* assignment returned, to the very instant of last_updated.
C1_Witness ==
    /\ Constructed
    /\ ~video.immutable
    /\ last.op = "setattr"
    /\ last.key = "publish_date"
    /\ last.exc = ""
    /\ calls = MaxVideoCalls
    /\ video.slots["publish_date"] = last.val
    /\ video.slots["publish_date"].t = video.slots["last_updated"].t
    /\ video.slots["publish_date"].t > 0

\* ------------------------------------------------------------------- C2
\* The values each property accepts.
ValidText(v) == IsInstance(v, {"str"})
ValidName(v) == IsInstance(v, {"str"}) /\ v.s # ""
ValidChannelId(v) ==
    IsInstance(v, {"str"}) /\ Len(v.s) = 24 /\ StartsWith(v.s, "UC")
ValidVideoId(v) == IsInstance(v, {"str"}) /\ Len(v.s) = 11
ValidDate(v) == IsInstance(v, {"datetime"}) /\ v.tz /\ v.t <= now
ValidDuration(v) == IsInstance(v, {"timedelta"}) /\ v.d >= 0
ValidKeywords(v) ==
    /\ IsInstance(v, {"list", "tuple", "set"})
    /\ \A i \in DOMAIN v.elems : ValidName(v.elems[i])
ValidUrl(v) == IsInstance(v, {"str"}) /\ validators_url(v.s)
ValidHtml(v) ==
    \/ IsInstance(v, {"HtmlDict"}) /\ v.ref \in Allocated(htmls)
    \/ /\ IsInstance(v, {"dict"})
       /\ DOMAIN v.d = Range(HtmlDict_keys)
       /\ \A k \in DOMAIN v.d : ValidText(v.d[k])

\* val is a valid new value of the property key of the VideoInfo as it is.
VideoInfo_valid(key, val) ==
    CASE key = "channel_id" -> ValidChannelId(val)
      [] key \in {"channel_name", "video_title"} -> ValidName(val)
      [] key = "description" -> ValidText(val)
      [] key = "duration" -> ValidDuration(val)
      [] key = "keywords" -> ValidKeywords(val)
      [] key = "last_updated" ->
            ValidDate(val) /\ val.t >= video.slots["publish_date"].t
      [] key = "publish_date" ->
            /\ IsInstance(val, {"datetime"}) /\ val.tz
            /\ val.t <= video.slots["last_updated"].t
      [] key = "thumbnail_url" -> ValidUrl(val)
      [] key = "video_id" -> ValidVideoId(val)

ChannelInfo_valid(key, val) ==
    CASE key = "channel_id" -> ValidChannelId(val)
      [] key = "channel_name" -> ValidName(val)
      [] key = "html" -> ValidHtml(val)
      [] key = "last_updated" -> ValidDate(val)

\* record.key = val or record[key] = val
ChannelAssign(c, key, val) ==
    ChannelSetAttr(c, key, val) \/ ChannelSetItem(c, Str(key), val)

HtmlAssign(h, key, val) == HtmlSetAttr(h, key, val) \/ HtmlSetItem(h, Str(key), val)

\* The assignments to the fields of an immutable record raise AttributeError
\* and change nothing.
C2_ImmutableKept ==
    /\ \A key \in Range(VideoInfo_keys) : \A val \in VideoInfo_args(key) :
          (Constructed /\ video.immutable /\ VideoAssign(key, val))
              => last'.exc = "AttributeError" /\ video' = video
    /\ \A c \in 1..MaxChan, key \in Range(ChannelInfo_keys) :
          \A val \in ChannelInfo_args(key, htmls) :
              (chans[c] # NoObject /\ chans[c].immutable
                  /\ ChannelAssign(c, key, val))
                  => /\ last'.exc = "AttributeError"
                     /\ chans' = chans /\ htmls' = htmls
    /\ \A h \in 1..MaxHtml, key \in Range(HtmlDict_keys) :
          \A val \in HtmlTextArgs :
              (htmls[h] # NoObject /\ htmls[h].immutable
                  /\ HtmlAssign(h, key, val))
                  => last'.exc = "AttributeError" /\ htmls' = htmls

\* The value passed, as the claim reads it back.
ReadAsPassed(key, val) == val

\* The value passed, with a keywords collection read back as the list of its
\* keywords.
ReadAsStored(key, val) ==
    IF key = "keywords" THEN List(val.elems) ELSE val

Read(as_stored, key, val) ==
    IF as_stored THEN ReadAsStored(key, val) ELSE ReadAsPassed(key, val)

\* The assignments of valid values to the fields of a mutable record return,
\* and the field then reads as Read says.
C2_MutableSet(as_stored) ==
    /\ \A key \in Range(VideoInfo_keys) : \A val \in VideoInfo_args(key) :
          (Constructed /\ ~video.immutable /\ VideoInfo_valid(key, val)
              /\ VideoAssign(key, val))
              => /\ last'.exc = ""
                 /\ PyEq(video'.slots[key], Read(as_stored, key, val), htmls')
    /\ \A c \in 1..MaxChan, key \in Range(ChannelInfo_keys) :
          \A val \in ChannelInfo_args(key, htmls) :
              (chans[c] # NoObject /\ ~chans[c].immutable
                  /\ ChannelInfo_valid(key, val) /\ ChannelAssign(c, key, val))
                  => /\ last'.exc = ""
                     /\ PyEq(chans'[c].slots[key], Read(as_stored, key, val), htmls')
    /\ \A h \in 1..MaxHtml, key \in Range(HtmlDict_keys) :
          \A val \in HtmlTextArgs :
              (htmls[h] # NoObject /\ ~htmls[h].immutable /\ ValidText(val)
                  /\ HtmlAssign(h, key, val))
                  => /\ last'.exc = ""
                     /\ PyEq(htmls'[h].slots[key], Read(as_stored, key, val), htmls')

\* Construction never raises AttributeError, whatever the immutable flag: the
\* first assignment of each field is allowed, and an immutable record built
\* from valid arguments has every field set.
C2_FirstAssignment ==
    /\ \A args \in VideoInfo_init_args, immutable \in ImmutableArgs :
          NewVideoInfo(args, immutable)
              => /\ last'.exc # "AttributeError"
                 /\ (last'.exc = "" /\ immutable = Bool(TRUE))
                       => /\ video'.immutable
                          /\ DOMAIN video'.slots = Range(VideoInfo_keys)
    /\ \A c \in 1..MaxChan, args \in ChannelInfo_init_args,
          immutable \in ImmutableArgs :
          NewChannelInfo(c, args, immutable)
              => /\ last'.exc # "AttributeError"
                 /\ (last'.exc = "" /\ immutable = Bool(TRUE))
                       => /\ chans'[c].immutable
                          /\ DOMAIN chans'[c].slots = Range(ChannelInfo_keys)
    /\ \A args \in HtmlDict_init_args, immutable \in ImmutableArgs :
          NewHtmlDict(args, immutable)
              => /\ last'.exc # "AttributeError"
                 /\ (last'.exc = "" /\ immutable = Bool(TRUE))
                       => \E h \in 1..MaxHtml :
                             /\ htmls[h] = NoObject
                             /\ htmls'[h].immutable
                             /\ DOMAIN htmls'[h].slots = Range(HtmlDict_keys)

\* C2 as claimed: on an immutable record the assignment to a field that has a
\* value fails with the immutability error and the field keeps its value; on
\* a mutable record the assignment of a valid value succeeds and the next
\* read returns the value assigned; construction may assign each field once.
C2_AsClaimed ==
    [][C2_ImmutableKept /\ C2_MutableSet(FALSE)
          /\ C2_FirstAssignment]_vars

\* C2 (amended): as claimed, except that the keywords of a mutable VideoInfo
\* read back as a list of the keywords assigned, whatever collection (list,
\* tuple or set) was assigned.
C2_Assignment ==
    [][C2_ImmutableKept /\ C2_MutableSet(TRUE)
          /\ C2_FirstAssignment]_vars

\* A mutable VideoInfo whose keywords were assigned as a tuple by key, after
\* another assignment returned.
C2_Witness ==
    /\ Constructed
    /\ ~video.immutable
    /\ last.op = "setitem"
    /\ last.key = "keywords"
    /\ IsInstance(last.val, {"tuple"})
    /\ last.exc = ""
    /\ calls = MaxVideoCalls
    /\ video.slots["keywords"] = List(last.val.elems)

\* ============================================================== C3 .. C10

\* Rows i and j of the store hold the same (video_id, timestamp) pair.
SamePair(r, q) == r.video_id = q.video_id /\ r.timestamp = q.timestamp

\* C3 as claimed: in every state of a Stats store reached by construction
\* (empty or from a dataset) and add_row calls, no two rows share their
\* (video_id, timestamp) pair.
C3_AsClaimed ==
    IsStats =>
        \A i, j \in DOMAIN stats.rows :
            i # j => ~SamePair(stats.rows[i], stats.rows[j])

\* C4 as claimed: in every state of a Stats store reached by construction
\* (from a dataset whose rows come in any order, or empty) and add_row calls,
\* the rows are in ascending (video_id, timestamp) order.
C4_AsClaimed ==
    IsStats =>
        \A i \in 1..(Len(stats.rows) - 1) :
            KeyLeq(stats.rows[i], stats.rows[i + 1])

\* The pair of the call a is the pair of a stored row.
PairStored(a) ==
    \E i \in DOMAIN stats.rows :
        /\ stats.rows[i].video_id = a.video_id
        /\ stats.rows[i].timestamp = a.timestamp

\* C5 as claimed: add_row with a (video_id, timestamp) pair that is in the
\* store raises ValueError, and the rows of the store are as before.
C5_AsClaimed ==
    [][\A a \in AddRowArgs :
          (IsStats /\ PairStored(a) /\ AddRow(a))
              => last'.exc = "ValueError" /\ stats' = stats]_vars

\* C6 as claimed: an add_row call that returns leaves one row more, and no
\* call removes or overwrites a row: every row of the store is still in it
\* after the call, with the values it had.
C6_AsClaimed ==
    [][\A a \in AddRowArgs :
          (IsStats /\ AddRow(a))
              => /\ last'.exc = ""
                    => Len(stats'.rows) = Len(stats.rows) + 1
                 /\ \A i \in DOMAIN stats.rows :
                       \E j \in DOMAIN stats'.rows :
                           stats'.rows[j] = stats.rows[i]]_vars

\* C7 as claimed: on a store whose rows were all added by add_row, in
\* whatever order, most_recent returns a mapping whose keys are the video ids
\* of the store, each with the fields of a row of that video than which no
\* row of the video has a greater timestamp.
C7_AsClaimed ==
    (last.op = "most_recent" /\ stats.dtypes.timestamp = "datetime64[ns]") =>
        /\ last.exc = ""
        /\ DOMAIN last.val.d =
              {stats.rows[i].video_id.s : i \in DOMAIN stats.rows}
        /\ \A i \in DOMAIN stats.rows :
              \E m \in DOMAIN stats.rows :
                  /\ stats.rows[m].video_id = stats.rows[i].video_id
                  /\ stats.rows[m].timestamp.t >= stats.rows[i].timestamp.t
                  /\ last.val.d[stats.rows[i].video_id.s]
                        = Fields(stats.rows[m])

\* C8 as claimed: an add_row call that raises leaves the rows of the store
\* exactly as they were.
C8_AsClaimed ==
    [][\A a \in AddRowArgs :
          (IsStats /\ AddRow(a) /\ last'.exc # "")
              => stats'.rows = stats.rows]_vars

NonNegativeInt(v) == IsInstance(v, {"int"}) /\ ~IsHuge(v) /\ v.n >= 0

\* video_id, views, rating, likes and dislikes of the call a are valid, and
\* its timestamp is a datetime.
ValidButTimestamp(a) ==
    /\ IsInstance(a.video_id, {"str"}) /\ is_video_id(a.video_id.s)
    /\ IsInstance(a.timestamp, {"datetime"})
    /\ NonNegativeInt(a.views)
    /\ a.rating # None =>
          IsInstance(a.rating, {"int", "float"}) /\ ~RatingOutOfRange(a.rating)
    /\ a.likes # None => NonNegativeInt(a.likes)
    /\ a.dislikes # None => NonNegativeInt(a.dislikes)

\* The rating is left to add_row to derive.
Derives(a) == a.rating = None /\ a.likes # None /\ a.dislikes # None

\* The stored rating is the number passed (None is stored as a missing value).
SameNumber(stored, passed) ==
    CASE passed = None -> stored = NA
      [] IsInstance(passed, {"int"}) ->
            IsInstance(stored, {"float"}) /\ stored.num = passed.n * stored.den
      [] OTHER ->
            /\ IsInstance(stored, {"float"})
            /\ stored.num * passed.den = passed.num * stored.den

\* C9 as claimed: a call of add_row on an empty-built store whose arguments
\* pass every check (a timestamp now or earlier that the timestamp check lets
\* through, a pair not stored), with rating omitted and likes and dislikes
\* given, returns and stores rating = 5 * likes / (likes + dislikes); with
\* rating given, or likes or dislikes omitted, it stores the rating passed.
C9_AsClaimed ==
    [][\A a \in AddRowArgs :
          (/\ IsStats /\ stats.dtypes.timestamp = "datetime64[ns]"
           /\ ValidButTimestamp(a) /\ ~a.timestamp.tz /\ a.timestamp.t <= now
           /\ ~PairStored(a) /\ AddRow(a))
              => /\ last'.exc = ""
                 /\ \E j \in DOMAIN stats'.rows :
                       /\ stats'.rows[j].video_id = a.video_id
                       /\ stats'.rows[j].timestamp = a.timestamp
                       /\ IF Derives(a)
                          THEN /\ IsInstance(stats'.rows[j].rating, {"float"})
                               /\ stats'.rows[j].rating.num
                                     * (a.likes.n + a.dislikes.n)
                                  = 5 * a.likes.n * stats'.rows[j].rating.den
                          ELSE SameNumber(stats'.rows[j].rating, a.rating)]_vars

\* C10 as claimed: a call of add_row whose other arguments are valid (the
\* rating derivable, the pair not stored) returns exactly when its timestamp
\* is timezone-aware and not later than now, and then the row is stored; so
\* no stored timestamp is naive.
C10_AsClaimed ==
    [][/\ \A a \in AddRowArgs :
             (/\ IsStats /\ ValidButTimestamp(a) /\ ~PairStored(a)
              /\ Derives(a) => a.likes.n + a.dislikes.n > 0
              /\ AddRow(a))
                 => /\ last'.exc = ""
                       <=> (a.timestamp.tz /\ a.timestamp.t <= now)
                    /\ last'.exc = ""
                       => \E j \in DOMAIN stats'.rows :
                             /\ stats'.rows[j].video_id = a.video_id
                             /\ stats'.rows[j].timestamp = a.timestamp
       /\ IsStats' =>
             \A i \in DOMAIN stats'.rows : stats'.rows[i].timestamp.tz]_vars

\* ================================================================== C11 ..

\* The last call constructed a Stats store from a dataset whose column set
\* is not the expected one.
OtherColumnsGiven ==
    /\ last.op = "init" /\ last.cls = "Stats"
    /\ IsInstance(last.val, {"DataFrame"})
    /\ last.val.columns # Range(expected_columns)

\* C11: constructing a Stats store from a dataset whose column set differs
\* from the six expected names raises ValueError, whatever the dtypes of its
\* columns (the column check comes before the dtype check), the message
\* names every missing column and every extra column, and no store is made.
C11_ColumnMismatch ==
    OtherColumnsGiven =>
        /\ last.exc = "ValueError"
        /\ last.context.missing = Range(expected_columns) \ last.val.columns
        /\ last.context.extra = last.val.columns \ Range(expected_columns)
        /\ stats = NoStats

\* A dataset with views under the name view_count and strings in its
\* timestamp column was refused for its columns.
C11_Witness ==
    /\ OtherColumnsGiven
    /\ "views" \notin last.val.columns
    /\ "view_count" \in last.val.columns
    /\ last.val.types["timestamp"] = "str"
    /\ last.exc = "ValueError"
    /\ last.context = [missing |-> {"views"}, extra |-> {"view_count"}]

\* C12 as claimed: every construction of a Stats store with interpolate=True
\* that would succeed without it, with a dataset or with none, raises
\* NotImplementedError and makes no store.
C12_AsClaimed ==
    [][\A data \in DataArgs :
          (Stats_init(data, FALSE).exc = "" /\ NewStats(data, TRUE))
              => last'.exc = "NotImplementedError" /\ stats' = NoStats]_vars

\* C13: coerce_dtypes is idempotent, and leaves the dataset it is given as it
\* was: when coerce_dtypes(d, spec) returns, d is unchanged, and the call
\* coerce_dtypes(coerce_dtypes(d, spec), spec) returns a dataset equal to its
\* argument and leaves that argument unchanged.
C13_Idempotent ==
    (frame # NoFrame /\ frame.exc = "") =>
        /\ frame.data = frame.given
        /\ frame.again # NoFrame =>
              /\ frame.again.exc = ""
              /\ frame.again.result = frame.result
              /\ frame.again.data = frame.result

\* Both calls have returned, the first has cast column "a" from float64 to
\* the nullable float, and has left column "b" as it was.
C13_Witness ==
    /\ frame # NoFrame
    /\ frame.again # NoFrame
    /\ frame.again.exc = ""
    /\ frame.given.cols["a"].dtype = "float64"
    /\ frame.result.cols["a"].dtype = "Float64"
    /\ frame.result.cols["b"] = frame.given.cols["b"]
    /\ Len(frame.kwargs) = 2

\* The file at path p holds what to_json writes for the ChannelInfo self.
WrittenBy(self, p) ==
    /\ self # NoObject
    /\ ChannelInfo_to_json(self, Path(p), htmls, files).exc = ""
    /\ files[p] = ChannelInfo_to_json(self, Path(p), htmls, files).files[p]

\* C14: a ChannelInfo written with to_json and loaded with from_json, with
\* the same immutable flag and at the same or a later clock time, gives a
\* record with that flag that is equal to the original, whichever flag the
\* original has.
C14_RoundTrip ==
    [][\A c \in 1..MaxChan, d \in 1..MaxChan, p \in PathNames,
          immutable \in BOOLEAN :
            (/\ WrittenBy(chans[c], p)
             /\ chans[c].immutable = immutable
             /\ ChannelFromJson(d, Path(p), Bool(immutable)))
                => /\ last'.exc = ""
                   /\ chans'[d].immutable = immutable
                   /\ chans'[d].slots["html"] # chans'[c].slots["html"]
                   /\ PropertyDict_eq(ChannelInfo_keys, chans'[d].slots,
                                      chans'[c].slots, htmls')
                   /\ PropertyDict_eq(ChannelInfo_keys, chans'[c].slots,
                                      chans'[d].slots, htmls')]_vars

\* An immutable ChannelInfo has been written at time 1 and loaded at time 2
\* as the second record, which is immutable and equal to the first.
C14_Witness ==
    /\ last.op = "from_json" /\ last.exc = ""
    /\ now = 2
    /\ chans[1] # NoObject /\ chans[2] # NoObject
    /\ chans[1].immutable /\ chans[2].immutable
    /\ chans[1].slots["last_updated"] = Datetime(1, TRUE)
    /\ htmls[chans[1].slots["html"].ref].slots["about"] = Str("<p>")
    /\ PropertyDict_eq(ChannelInfo_keys, chans[2].slots, chans[1].slots, htmls)

\* C15 as claimed: no call changes the immutable flag of a record that has
\* been constructed, be it a VideoInfo, a ChannelInfo or an HtmlDict.
C15_AsClaimed ==
    [][/\ video # NoObject => video'.immutable = video.immutable
       /\ \A c \in 1..MaxChan :
             chans[c] # NoObject => chans'[c].immutable = chans[c].immutable
       /\ \A h \in 1..MaxHtml :
             htmls[h] # NoObject => htmls'[h].immutable = htmls[h].immutable
      ]_vars

\* The record a hash call was made on.
Hashed ==
    CASE last.cls = "VideoInfo" -> video
      [] last.cls = "ChannelInfo" -> chans[last.val.n]
      [] last.cls = "HtmlDict" -> htmls[last.val.n]

\* C16 as claimed: hash(record) returns when the record is immutable and
\* raises TypeError when it is mutable.
C16_AsClaimed ==
    last.op = "hash" =>
        IF Hashed.immutable THEN last.exc = "" ELSE last.exc = "TypeError"

BadKey(key, keys) ==
    IF ~IsInstance(key, {"str"}) THEN "TypeError"
    ELSE IF key.s = "immutable" \/ key.s \notin Range(keys) THEN "KeyError"
    ELSE ""

\* C17: record[key] = val and record[key] raise TypeError for a key that is
\* no string and KeyError for a string that is not in keys(), and leave the
\* record as it was; for a key in keys() the write does what the setter of
\* that property does with val, and the read returns the value stored.  The
\* immutable flag is not a key.
C17_Items ==
    [][/\ \A key \in KeyArgs(VideoInfo_keys) :
             /\ \A val \in ItemArgs_VideoInfo(key) :
                   VideoSetItem(key, val) =>
                       IF BadKey(key, VideoInfo_keys) # ""
                       THEN /\ last'.exc = BadKey(key, VideoInfo_keys)
                            /\ video' = video
                       ELSE /\ last'.exc =
                                 VideoInfo_setattr(video, key.s, val, now).exc
                            /\ video' =
                                 VideoInfo_setattr(video, key.s, val, now).self
             /\ VideoGetItem(key) =>
                   IF BadKey(key, VideoInfo_keys) # ""
                   THEN last'.exc = BadKey(key, VideoInfo_keys)
                   ELSE last'.exc = "" /\ last'.val = video.slots[key.s]
       /\ \A c \in 1..MaxChan, key \in KeyArgs(ChannelInfo_keys) :
             /\ \A val \in ItemArgs_ChannelInfo(key, htmls) :
                   ChannelSetItem(c, key, val) =>
                       IF BadKey(key, ChannelInfo_keys) # ""
                       THEN /\ last'.exc = BadKey(key, ChannelInfo_keys)
                            /\ chans' = chans /\ htmls' = htmls
                       ELSE LET r == ChannelInfo_setattr(chans[c], key.s, val,
                                                         now, htmls)
                            IN /\ last'.exc = r.exc
                               /\ chans' = [chans EXCEPT ![c] = r.self]
                               /\ htmls' = r.heap
             /\ ChannelGetItem(c, key) =>
                   IF BadKey(key, ChannelInfo_keys) # ""
                   THEN last'.exc = BadKey(key, ChannelInfo_keys)
                   ELSE last'.exc = "" /\ last'.val = chans[c].slots[key.s]
       /\ \A h \in 1..MaxHtml, key \in KeyArgs(HtmlDict_keys) :
             /\ \A val \in HtmlTextArgs :
                   HtmlSetItem(h, key, val) =>
                       IF BadKey(key, HtmlDict_keys) # ""
                       THEN /\ last'.exc = BadKey(key, HtmlDict_keys)
                            /\ htmls' = htmls
                       ELSE LET r == HtmlDict_setattr(htmls[h], key.s, val)
                            IN /\ last'.exc = r.exc
                               /\ htmls' = [htmls EXCEPT ![h] = r.self]
             /\ HtmlGetItem(h, key) =>
                   IF BadKey(key, HtmlDict_keys) # ""
                   THEN last'.exc = BadKey(key, HtmlDict_keys)
                   ELSE last'.exc = "" /\ last'.val = htmls[h].slots[key.s]
      ]_vars

\* video["immutable"] = val has raised KeyError on a mutable VideoInfo.
C17_Witness ==
    /\ last.op = "setitem" /\ last.cls = "VideoInfo"
    /\ last.key = "immutable"
    /\ last.exc = "KeyError"
    /\ video # NoObject /\ ~video.immutable

\* C18: the clock never going back, the last_updated of every VideoInfo and
\* ChannelInfo carries a timezone and is not later than the current time, and
\* the publish_date of every VideoInfo is not later than the current time.
C18_NotInTheFuture ==
    /\ video # NoObject =>
          /\ video.slots["last_updated"].tz
          /\ video.slots["last_updated"].t <= now
          /\ video.slots["publish_date"].t <= now
    /\ \A c \in 1..MaxChan :
          chans[c] # NoObject =>
              /\ chans[c].slots["last_updated"].tz
              /\ chans[c].slots["last_updated"].t <= now

\* The clock has advanced to 2 and the VideoInfo has then been given the
\* last_updated 2, its publish_date being earlier.
C18_Witness ==
    /\ now = 2
    /\ last.op = "setattr" /\ last.cls = "VideoInfo"
    /\ last.key = "last_updated" /\ last.exc = ""
    /\ video.slots["last_updated"] = Datetime(2, TRUE)
    /\ video.slots["publish_date"].t < 2

\* The types a property takes.
PropertyTypes(key) ==
    CASE key \in {"last_updated", "publish_date"} -> {"datetime"}
      [] key = "duration" -> {"timedelta"}
      [] key = "keywords" -> {"list", "tuple", "set"}
      [] key = "html" -> {"HtmlDict", "dict"}
      [] OTHER -> {"str"}

\* A plain mapping that the constructor of HtmlDict takes.
WellFormedMapping(d) ==
    /\ Range(HtmlDict_keys) \subseteq DOMAIN d
    /\ DOMAIN d \subseteq Range(HtmlDict_keys) \cup {"immutable"}
    /\ \A k \in Range(HtmlDict_keys) : IsInstance(d[k], {"str"})
    /\ "immutable" \in DOMAIN d => IsInstance(d["immutable"], {"bool"})

\* The exception of an assignment, its guards taken in the order
\* immutability, type, format.  A keywords collection is of the right type
\* when it is a list, a tuple or a set: with elementwise, its keywords are
\* then taken one by one, each for its type and then for its format;
\* without, every keyword has to be a string for the type to be right.
Guarded(elementwise, immutable, key, val, well_formed) ==
    IF immutable THEN "AttributeError"
    ELSE IF ~IsInstance(val, PropertyTypes(key)) THEN "TypeError"
    ELSE IF key = "keywords" /\ elementwise THEN KeywordError(val.elems)
    ELSE IF key = "keywords"
            /\ \E i \in DOMAIN val.elems : ~IsInstance(val.elems[i], {"str"})
    THEN "TypeError"
    ELSE IF ~well_formed THEN "ValueError"
    ELSE ""

C20_WellFormedHtml(val) ==
    IsInstance(val, {"dict"}) => WellFormedMapping(val.d)

\* The assignments that fail raise the exception of Guarded and leave the
\* records as they were.
C20_Guards(elementwise) ==
    /\ \A key \in Range(VideoInfo_keys) : \A val \in SetterArgs(key) :
          LET e == Guarded(elementwise, video.immutable, key, val,
                           VideoInfo_valid(key, val))
          IN VideoSetAttr(key, val) =>
                 /\ last'.exc = e
                 /\ e # "" => video' = video
    /\ \A c \in 1..MaxChan, key \in Range(ChannelInfo_keys) :
          \A val \in ChannelInfo_args(key, htmls) :
              LET e == Guarded(elementwise, chans[c].immutable, key, val,
                               IF key = "html" THEN C20_WellFormedHtml(val)
                               ELSE ChannelInfo_valid(key, val))
              IN ChannelSetAttr(c, key, val) =>
                     /\ last'.exc = e
                     /\ e # "" => chans' = chans /\ htmls' = htmls
    /\ \A h \in 1..MaxHtml, key \in Range(HtmlDict_keys) :
          \A val \in HtmlTextArgs :
              LET e == Guarded(elementwise, htmls[h].immutable, key, val, TRUE)
              IN HtmlSetAttr(h, key, val) =>
                     /\ last'.exc = e
                     /\ e # "" => htmls' = htmls

\* C20 as claimed: every setter applies its guards in the order immutability,
\* type, format: AttributeError on an immutable record whatever the value,
\* else TypeError for a value of the wrong type before any check of a
\* format, else ValueError for a badly formatted value, the field being
\* unchanged in the three cases.
C20_AsClaimed == [][C20_Guards(FALSE)]_vars

\* C20: every setter raises AttributeError on an immutable record whatever
\* the value, else TypeError for a value that is not of the type of the
\* property, else ValueError for a badly formatted value, and leaves the
\* field unchanged in the three cases; the keywords of a list, tuple or set
\* are checked one by one in iteration order, each for being a string and
\* then for being non-empty, so the first offending keyword decides between
\* TypeError and ValueError.
C20_GuardOrder == [][C20_Guards(TRUE)]_vars

\* The keywords ["", 1] have been assigned to a mutable VideoInfo: the empty
\* keyword has raised ValueError before the type of the second was looked at.
C20_Witness ==
    /\ last.op = "setattr" /\ last.cls = "VideoInfo"
    /\ last.key = "keywords"
    /\ last.val = List(<<Str(""), PyInt(1)>>)
    /\ last.exc = "ValueError"
    /\ ~video.immutable
    /\ video.slots["keywords"] = List(<<Str("k")>>)

\* ================================================================== C21 ..

\* The timestamp v is a datetime later than the current time.
InTheFuture(v) == IsInstance(v, {"datetime"}) /\ v.t > now

\* The dataset has the expected columns and dtypes, its timestamps are
\* timezone-aware, and each of its rows that has a video id and a timestamp
\* has a well-formed video id.
AcceptedDataset(data) ==
    /\ IsInstance(data, {"DataFrame"})
    /\ data.columns = Range(expected_columns)
    /\ data.types = expected_types
    /\ data.tz
    /\ \A i \in DOMAIN data.rows :
          (data.rows[i].video_id # NA /\ data.rows[i].timestamp # NA)
              => is_video_id(data.rows[i].video_id.s)

\* C21: constructing a Stats store from a dataset with timezone-aware
\* timestamps, some of them later than the current time, returns, and the
\* store holds a row for every (video_id, timestamp) pair of the dataset whose
\* timestamp is later than the current time; add_row with a timestamp later
\* than the current time raises, and the store is as it was.
C21_FutureTimestamps ==
    [][/\ (/\ last'.op = "init" /\ last'.cls = "Stats"
           /\ AcceptedDataset(last'.val)
           /\ \E i \in DOMAIN last'.val.rows :
                 InTheFuture(last'.val.rows[i].timestamp)
           /\ NewStats(last'.val, FALSE))
              => /\ last'.exc = ""
                 /\ IsStats'
                 /\ \A i \in DOMAIN last'.val.rows :
                       (/\ InTheFuture(last'.val.rows[i].timestamp)
                        /\ last'.val.rows[i].video_id # NA)
                           => \E j \in DOMAIN stats'.rows :
                                 SamePair(stats'.rows[j], last'.val.rows[i])
       /\ (/\ IsStats
           /\ last'.op = "add_row"
           /\ InTheFuture(last'.val.timestamp)
           /\ AddRow(last'.val))
              => last'.exc # "" /\ stats' = stats]_vars

\* A store built from a dataset holds a row whose timezone-aware timestamp is
\* later than the current time, and add_row has raised ValueError for a
\* timestamp that is later than the current time.
C21_Witness ==
    /\ IsStats
    /\ \E i \in DOMAIN stats.rows :
          stats.rows[i].timestamp.tz /\ InTheFuture(stats.rows[i].timestamp)
    /\ last.op = "add_row"
    /\ InTheFuture(last.val.timestamp)
    /\ ~last.val.timestamp.tz
    /\ last.exc = "ValueError"

\* Some column is given a typespec that is a type other than the eight of
\* AVAILABLE_DTYPES.
UnsupportedTypespec(kwargs) ==
    \E i \in DOMAIN kwargs :
        /\ IsInstance(kwargs[i][2], {"type"})
        /\ kwargs[i][2].name \notin AVAILABLE_DTYPES

\* C22 as claimed: coerce_dtypes with an unsupported typespec for any column
\* raises KeyError with a message that lists the eight supported types; with
\* no keyword argument it raises RuntimeError; in both cases the dataset
\* passed is as it was.
C22_AsClaimed ==
    frame # NoFrame =>
        /\ UnsupportedTypespec(frame.kwargs) =>
              /\ frame.exc = "KeyError"
              /\ frame.listed = AVAILABLE_DTYPES
              /\ frame.data = frame.given
        /\ frame.kwargs = <<>> =>
              /\ frame.exc = "RuntimeError"
              /\ frame.data = frame.given

\* The validated properties that the body of the class declares, in the
\* order of their declaration.
Declared(cls) ==
    LET properties == SelectSeq(ClassBody(cls), LAMBDA a : a.kind = "property")
    IN [i \in DOMAIN properties |-> properties[i].name]

\* The record that the last call enumerated.
Enumerated ==
    CASE last.cls = "VideoInfo" -> video
      [] last.cls = "ChannelInfo" -> chans[last.obj]
      [] last.cls = "HtmlDict" -> htmls[last.obj]

\* C23: for ChannelInfo, HtmlDict and VideoInfo, keys() yields exactly the
\* names of the validated properties the type declares, without the
\* immutable flag, in the order of their declaration; iteration yields the
\* same; values() yields the values of these fields and items() the (name,
\* value) pairs, in that order.
C23_DeclarationOrder ==
    last.op \in Views =>
        LET declared == Declared(last.cls)
            names == List([i \in DOMAIN declared |-> Str(declared[i])])
            fields == [i \in DOMAIN declared |-> Enumerated.slots[declared[i]]]
        IN /\ last.exc = ""
           /\ "immutable" \notin Range(declared)
           /\ last.op \in {"keys", "iter"} => last.val = names
           /\ last.op = "values" => last.val = List(fields)
           /\ last.op = "items" =>
                 last.val = List([i \in DOMAIN declared |->
                                     Tuple(<<Str(declared[i]), fields[i]>>)])

\* The items of a VideoInfo have been listed after an assignment to it: ten
\* pairs, from channel_id to video_title, keywords being the fifth.
C23_Witness ==
    /\ last.op = "items" /\ last.cls = "VideoInfo"
    /\ last.exc = ""
    /\ calls = MaxKeyCalls
    /\ Len(last.val.elems) = 10
    /\ last.val.elems[1].elems[1] = Str("channel_id")
    /\ last.val.elems[5] = Tuple(<<Str("keywords"), video.slots["keywords"]>>)
    /\ last.val.elems[10].elems[1] = Str("video_title")

\* C24 as claimed: once an immutable ChannelInfo is constructed, no call on
\* it, on its HtmlDict or on another record changes the value of any of its
\* fields, nor of the four fields of the HtmlDict it holds.
C24_AsClaimed ==
    [][\A c \in 1..MaxChan :
          (chans[c] # NoObject /\ chans[c].immutable) =>
              /\ chans'[c].slots = chans[c].slots
              /\ htmls'[chans[c].slots["html"].ref].slots
                    = htmls[chans[c].slots["html"].ref].slots]_vars

\* The record compared by the last call was constructed from the arguments
\* of the second operand, with the other value of the immutable flag.
SameArguments ==
    /\ last.op = "eq"
    /\ IF last.cls = "VideoInfo"
       THEN /\ last.other.immutable # video.immutable
            /\ video = VideoInfo_init(last.args, Bool(video.immutable),
                                      now).self
       ELSE LET self == chans[last.obj]
                made == ChannelInfo_init(last.args, Bool(self.immutable), now,
                                         [h \in 1..MaxHtml |-> NoObject])
            IN /\ last.other.immutable # self.immutable
               /\ \A key \in {"channel_id", "channel_name", "last_updated"} :
                     self.slots[key] = made.self.slots[key]
               /\ htmls[self.slots["html"].ref]
                     = made.heap[made.self.slots["html"].ref]

\* C25 as claimed: a VideoInfo constructed with immutable=False and one
\* constructed with immutable=True from the same arguments are equal, in both
\* operand orders, and so are two such ChannelInfo.
C25_AsClaimed ==
    SameArguments => last.val = Bool(TRUE) /\ last.reversed = Bool(TRUE)

====
